---- MODULE Spec2Model ----
(***************************************************************************)
(* A model of the JSON codec of lib-json-value-semantic: json_value,       *)
(* json_lexer, json_parser and json_document (the header with the          *)
(* stack-based parser and the asserting peek_).                            *)
(*                                                                         *)
(* A std::string is a sequence of bytes (0..255).  Positions are 0-based   *)
(* as in the code: the byte at position p of s is s[p + 1].                *)
(***************************************************************************)
EXTENDS Integers, Sequences, FiniteSets, TLC

VARIABLES
    root,             \* json_document::root_
    is_valid,         \* json_document::is_valid_
    error_message,    \* json_document::error_message_ (its lines, joined by '\n')
    pc,               \* where the current from_string call stands
    source,           \* json_lexer::source_ (the argument of from_string)
    pos,              \* json_lexer::pos_
    p_is_valid,       \* json_parser::is_valid_
    p_error_message,  \* json_parser::error_message_ (its lines)
    p_root,           \* the local root of json_parser::parse
    stack,            \* the container stack of parse
    key_stack,        \* parse_complex_'s key_stack
    context,          \* parse_complex_'s context
    token_expected,   \* parse_complex_'s token_expected
    dangling_comma,   \* parse_complex_'s dangling_comma
    last_token,       \* the token the last next_token call returned
    out,              \* the text the last to_string call returned
    asserts,          \* whether the build keeps assert() (no NDEBUG)
    calls,            \* how many Document operations the client has made
    given,            \* the Value tree the client started from (Null if none)
    answer,           \* what the client's last query of a Value or Document returned
    fmt               \* the locals of the format_complex_node_ call that is running

vars == <<root, is_valid, error_message, pc, source, pos, p_is_valid,
          p_error_message, p_root, stack, key_stack, context, token_expected,
          dangling_comma, last_token, out, asserts, calls, given, answer,
          fmt>>

parser_vars == <<source, pos, p_is_valid, p_error_message, p_root, stack,
                 key_stack, context, token_expected, dangling_comma, last_token>>

doc_vars == <<root, is_valid, error_message>>

-----------------------------------------------------------------------------
(* Bytes.  Printable ASCII is written with one-character strings.          *)

Printable ==
    <<" ", "!", "\"", "#", "$", "%", "&", "'", "(", ")", "*", "+", ",", "-",
      ".", "/", "0", "1", "2", "3", "4", "5", "6", "7", "8", "9", ":", ";",
      "<", "=", ">", "?", "@", "A", "B", "C", "D", "E", "F", "G", "H", "I",
      "J", "K", "L", "M", "N", "O", "P", "Q", "R", "S", "T", "U", "V", "W",
      "X", "Y", "Z", "[", "\\", "]", "^", "_", "grave", "a", "b", "c", "d", "e",
      "f", "g", "h", "i", "j", "k", "l", "m", "n", "o", "p", "q", "r", "s",
      "t", "u", "v", "w", "x", "y", "z", "{", "|", "}", "~">>

OrdTable == [c \in {Printable[i] : i \in 1..Len(Printable)} |->
                31 + CHOOSE i \in 1..Len(Printable) : Printable[i] = c]

Ord(c) == OrdTable[c]

\* the bytes of a text written as a tuple of one-character strings
Str(s) == [i \in 1..Len(s) |-> Ord(s[i])]

RECURSIVE Concat(_)
Concat(ss) == IF ss = <<>> THEN <<>> ELSE Head(ss) \o Concat(Tail(ss))

IsDigit(c) == c >= 48 /\ c <= 57
IsXDigit(c) == IsDigit(c) \/ (c >= 65 /\ c <= 70) \/ (c >= 97 /\ c <= 102)
\* a variant of IsSpace that knows the blank alone
IsSpaceBlankOnly(c) == c = 32
IsSpace(c) == c = 32 \/ (c >= 9 /\ c <= 13)
HexVal(c) == IF IsDigit(c) THEN c - 48 ELSE IF c >= 97 THEN c - 87 ELSE c - 55

-----------------------------------------------------------------------------
(* json_value: a tagged record [t, v].                                     *)
(*   Int     v = [neg, mag]: the sign and the decimal digits of |v|, no    *)
(*           leading zeros (<<0>> is 0)                                    *)
(*   Float   v = [neg, mant, exp]: (-1)^neg * 0.mant * 10^exp as decimal   *)
(*           digits, mant without leading or trailing zeros (<<>> is 0)    *)
(*   String  v = the bytes                                                 *)
(*   Array   v = the sequence of the elements                              *)
(*   Object  v = the function from the keys to the members                 *)

Null == [t |-> "null", v |-> 0]
JBool(b) == [t |-> "bool", v |-> b]
JInt(neg, mag) == [t |-> "int", v |-> [neg |-> neg, mag |-> mag]]
JFloat(neg, mant, exp) ==
    [t |-> "double", v |-> [neg |-> neg, mant |-> mant, exp |-> exp]]
JString(s) == [t |-> "string", v |-> s]
JArray(a) == [t |-> "array", v |-> a]
JObject(o) == [t |-> "object", v |-> o]

\* json_value(T value) with T = bool: std::is_integral_v<bool> holds, so the
\* constructor converts the value to json_int_t
ValueOfBool(b) == JInt(FALSE, IF b THEN <<1>> ELSE <<0>>)

\* a variant of is<T>() that lets an Int answer a Float query
IsCoercing(x, t) == x.t = t \/ (x.t = "int" /\ t = "double")

\* is<T>(): std::holds_alternative<T>
Is(x, t) == x.t = t
IsComplex(x) == Is(x, "array") \/ Is(x, "object")

\* the alternatives of value_type, in the order of the variant
Alternatives == <<"null", "bool", "int", "double", "string", "array", "object">>
Types == {Alternatives[i] : i \in 1..Len(Alternatives)}

\* as<T>(): std::get<T> gives the held alternative or throws
As(x, t) ==
    IF x.t = t THEN [thrown |-> "", ref |-> x]
    ELSE [thrown |-> "std::bad_variant_access", ref |-> Null]

\* try_as<T>(): the address of the held alternative or nullptr
TryAs(x, t) ==
    IF Is(x, t) THEN [null |-> FALSE, ref |-> x] ELSE [null |-> TRUE, ref |-> Null]

\* what a client that asks a Value for T learns
NoAnswer == [op |-> "none"]
Asked(x, t) ==
    [op |-> "value", type |-> t, is |-> Is(x, t), as |-> As(x, t), try_as |-> TryAs(x, t)]

\* json_value(std::initializer_list<json_value>)
\* a variant that makes an array of every list
json_value_of_list_AlwaysArray(list) == JArray(list)
json_value_of_list(list) == IF Len(list) = 1 THEN list[1] ELSE JArray(list)

\* the empty unordered_map
EmptyObject == [k \in {} |-> Null]

\* unordered_map::operator[]= : insert or overwrite
ObjAssign(o, k, x) == [j \in DOMAIN o \cup {k} |-> IF j = k THEN x ELSE o[j]]

\* unordered_map::emplace : insert unless the key is present
ObjEmplace(o, k, x) == IF k \in DOMAIN o THEN o ELSE ObjAssign(o, k, x)

-----------------------------------------------------------------------------
(* Diagnostics: a text and, where the code appends a character, the byte.  *)

NoCh == 0 - 1
Err(text) == [text |-> text, ch |-> NoCh]
ErrCh(text, c) == [text |-> text, ch |-> c]
ErrCat(prefix, e) == [text |-> prefix \o e.text, ch |-> e.ch]

\* json_token
Token(type, value) ==
    [type |-> type, value |-> value, is_valid |-> TRUE, error_str |-> Err("")]
Invalid(e) ==
    [type |-> "invalid", value |-> Null, is_valid |-> FALSE, error_str |-> e]

is_value_token(type) ==
    type \in {"string_value", "int_value", "double_value", "bool_value", "null_value"}

\* what a lexer call yields: the token, the cursor after it, and whether
\* the assert of peek_ failed on the way (the process is then aborted)
\* a variant of Lexed that rewinds the cursor behind an end-of-input token
LexedRewinding(tok, p) ==
    [tok |-> tok, pos |-> IF tok.type = "end_of_file" THEN 0 ELSE p, abort |-> FALSE]
Lexed(tok, p) == [tok |-> tok, pos |-> p, abort |-> FALSE]
Aborted(p) == [tok |-> Invalid(Err("assertion failed: pos_ < source_.size()")),
               pos |-> p, abort |-> TRUE]

-----------------------------------------------------------------------------
(* std::stoll and std::stod on a literal the number grammar accepted.      *)

DigitVals(s) == [i \in 1..Len(s) |-> s[i] - 48]

RECURSIVE StripLeadingZeros(_)
StripLeadingZeros(d) ==
    IF d /= <<>> /\ Head(d) = 0 THEN StripLeadingZeros(Tail(d)) ELSE d

RECURSIVE StripTrailingZeros(_)
StripTrailingZeros(d) ==
    IF d /= <<>> /\ d[Len(d)] = 0
    THEN StripTrailingZeros(SubSeq(d, 1, Len(d) - 1)) ELSE d

\* 0.a < 0.b for digit sequences a, b
RECURSIVE FracLess(_, _)
FracLess(a, b) ==
    IF b = <<>> THEN FALSE
    ELSE IF a = <<>> THEN StripLeadingZeros(b) /= <<>>
    ELSE IF Head(a) /= Head(b) THEN Head(a) < Head(b)
    ELSE FracLess(Tail(a), Tail(b))

\* a < b for digit sequences without leading zeros
MagLess(a, b) == Len(a) < Len(b) \/ (Len(a) = Len(b) /\ FracLess(a, b))

\* the first position >= p of s that holds no digit
RECURSIVE DigitsEnd(_, _)
DigitsEnd(s, p) ==
    IF p < Len(s) /\ IsDigit(s[p + 1]) THEN DigitsEnd(s, p + 1) ELSE p

RECURSIVE DecimalValue(_)
DecimalValue(d) ==
    IF d = <<>> THEN 0 ELSE 10 * DecimalValue(SubSeq(d, 1, Len(d) - 1)) + d[Len(d)]

LLONG_MAX_MAG == <<9, 2, 2, 3, 3, 7, 2, 0, 3, 6, 8, 5, 4, 7, 7, 5, 8, 0, 7>>
LLONG_MIN_MAG == <<9, 2, 2, 3, 3, 7, 2, 0, 3, 6, 8, 5, 4, 7, 7, 5, 8, 0, 8>>
DBL_MAX_MANT == <<1, 7, 9, 7, 6, 9, 3, 1, 3, 4, 8, 6, 2, 3, 1, 5, 7>>
DBL_MIN_MANT == <<2, 2, 2, 5, 0, 7, 3, 8, 5, 8, 5, 0, 7, 2, 0, 1, 4>>

\* std::stoll(text): the value, or out_of_range thrown
Stoll(text) ==
    LET neg == text[1] = 45
        mag == DigitVals(IF neg THEN Tail(text) ELSE text)
        lim == IF neg THEN LLONG_MIN_MAG ELSE LLONG_MAX_MAG
    IN  IF MagLess(lim, mag) THEN [ok |-> FALSE, value |-> Null]
        ELSE [ok |-> TRUE, value |-> JInt(neg /\ mag /= <<0>>, mag)]

\* the parts of a literal of the number grammar: the digits of its integer
\* part and of its fraction, and its exponent
SignLen(text) == IF text[1] = 45 THEN 1 ELSE 0
IntDigits(text) ==
    DigitVals(SubSeq(text, SignLen(text) + 1, DigitsEnd(text, SignLen(text))))
FracStart(text) == DigitsEnd(text, SignLen(text)) + 1
HasFrac(text) == FracStart(text) <= Len(text) /\ text[FracStart(text)] = 46
FracDigits(text) ==
    IF HasFrac(text)
    THEN DigitVals(SubSeq(text, FracStart(text) + 1, DigitsEnd(text, FracStart(text))))
    ELSE <<>>
ExpStart(text) ==
    IF \E i \in 1..Len(text) : text[i] \in {101, 69}
    THEN CHOOSE i \in 1..Len(text) : text[i] \in {101, 69}
    ELSE Len(text) + 1
ExpDigits(text) ==
    StripLeadingZeros(DigitVals(SelectSeq(SubSeq(text, ExpStart(text) + 1, Len(text)),
                                          IsDigit)))
ExpValue(text) ==
    (IF ExpStart(text) < Len(text) /\ text[ExpStart(text) + 1] = 45 THEN 0 - 1 ELSE 1)
        * (IF Len(ExpDigits(text)) > 6 THEN 1000000 ELSE DecimalValue(ExpDigits(text)))

\* the double nearest to (-1)^neg * 0.mant * 10^exp, or out_of_range
RangeChecked(neg, mant, exp) ==
    IF mant = <<>> THEN [ok |-> TRUE, value |-> JFloat(neg, <<>>, 0)]
    ELSE IF exp > 309 \/ (exp = 309 /\ FracLess(DBL_MAX_MANT, mant))
    THEN [ok |-> FALSE, value |-> Null]
    ELSE IF exp < 0 - 307 \/ (exp = 0 - 307 /\ FracLess(mant, DBL_MIN_MANT))
    THEN [ok |-> FALSE, value |-> Null]
    ELSE [ok |-> TRUE, value |-> JFloat(neg, mant, exp)]

\* 0.digits * 10^exp with the leading and trailing zeros of digits dropped
Normalized(neg, digits, exp) ==
    RangeChecked(neg, StripTrailingZeros(StripLeadingZeros(digits)),
                 exp - (Len(digits) - Len(StripLeadingZeros(digits))))

\* std::stod(text): the value as a decimal, or out_of_range thrown when the
\* magnitude is above DBL_MAX or a nonzero one below DBL_MIN (strtod sets
\* ERANGE).  Literals are short enough to be exact in 15 significant digits.
Stod(text) ==
    Normalized(text[1] = 45, IntDigits(text) \o FracDigits(text),
               Len(IntDigits(text)) + ExpValue(text))

-----------------------------------------------------------------------------
(* json_lexer                                                              *)

\* peek_ in a build without assert(): source_[size()] is the NUL terminator
PeekAt(s, p) == IF p < Len(s) THEN s[p + 1] ELSE 0

\* peek_'s assert(pos_ < source_.size()) fails
AssertFails(s, p, asrt) == asrt /\ p >= Len(s)

RECURSIVE skip_whitespaces_(_, _)
skip_whitespaces_(s, p) ==
    IF p < Len(s) /\ IsSpace(s[p + 1]) THEN skip_whitespaces_(s, p + 1) ELSE p

\* a variant of starts_with_ without the test of the length: the bytes
\* that are left are compared with the start of value
starts_with_Unbounded(s, p, value) ==
    IF p + Len(value) <= Len(s)
    THEN SubSeq(s, p + 1, p + Len(value)) = value
    ELSE SubSeq(s, p + 1, Len(s)) = SubSeq(value, 1, Len(s) - p)

starts_with_(s, p, value) ==
    /\ p + Len(value) <= Len(s)
    /\ SubSeq(s, p + 1, p + Len(value)) = value

\* the conversion at the end of parse_number_
ConvertNumber(text, is_float, p) ==
    IF is_float
    THEN LET r == Stod(text)
         IN  IF r.ok THEN Lexed(Token("double_value", r.value), p)
             ELSE Lexed(Invalid(Err("Invalid float number (parse error or overflow/underflow)")), p)
    ELSE LET r == Stoll(text)
         IN  IF r.ok THEN Lexed(Token("int_value", r.value), p)
             ELSE Lexed(Invalid(Err("Integer overflow/underflow")), p)

\* parse_number_ behind the exponent's sign, p6 the cursor
NumberExponentDigits(s, p0, p6) ==
    IF p6 >= Len(s) \/ ~IsDigit(s[p6 + 1])
    THEN Lexed(Invalid(Err("Invalid exponent format")), p6)
    ELSE ConvertNumber(SubSeq(s, p0 + 1, DigitsEnd(s, p6)), TRUE, DigitsEnd(s, p6))

\* parse_number_ behind the 'e', p5 the cursor
NumberExponentSign(s, p0, p5, asrt) ==
    IF AssertFails(s, p5, asrt) THEN Aborted(p5)
    ELSE NumberExponentDigits(s, p0, IF PeekAt(s, p5) \in {43, 45} THEN p5 + 1 ELSE p5)

\* parse_number_ behind the fraction, p4 the cursor
NumberExponent(s, p0, p4, is_float, asrt) ==
    IF AssertFails(s, p4, asrt) THEN Aborted(p4)
    ELSE IF PeekAt(s, p4) \in {101, 69} THEN NumberExponentSign(s, p0, p4 + 1, asrt)
    ELSE ConvertNumber(SubSeq(s, p0 + 1, p4), is_float, p4)

\* parse_number_ behind the integer part, p2 the cursor
NumberFraction(s, p0, p2, asrt) ==
    IF AssertFails(s, p2, asrt) THEN Aborted(p2)
    ELSE IF PeekAt(s, p2) = 46
    THEN IF p2 + 1 >= Len(s) \/ ~IsDigit(s[p2 + 2])
         THEN Lexed(Invalid(Err("Invalid number format after decimal point")), p2 + 1)
         ELSE NumberExponent(s, p0, DigitsEnd(s, p2 + 1), TRUE, asrt)
    ELSE NumberExponent(s, p0, p2, FALSE, asrt)

\* parse_number_ behind the sign, p1 the cursor
NumberInteger(s, p0, p1, asrt) ==
    IF p1 >= Len(s) \/ ~IsDigit(s[p1 + 1])
    THEN Lexed(Invalid(Err("Invalid number format")), p1)
    ELSE IF s[p1 + 1] = 48
    THEN IF p1 + 1 < Len(s) /\ IsDigit(s[p1 + 2])
         THEN Lexed(Invalid(Err("Leading zeros are not allowed")), p1 + 1)
         ELSE NumberFraction(s, p0, p1 + 1, asrt)
    ELSE NumberFraction(s, p0, DigitsEnd(s, p1), asrt)

parse_number_(s, p0, asrt) ==
    NumberInteger(s, p0, IF s[p0 + 1] = 45 THEN p0 + 1 ELSE p0, asrt)

\* a | b of two unsigned integers
RECURSIVE BitOr(_, _)
BitOr(a, b) ==
    IF a = 0 THEN b
    ELSE IF b = 0 THEN a
    ELSE 2 * BitOr(a \div 2, b \div 2) + (IF a % 2 = 1 \/ b % 2 = 1 THEN 1 ELSE 0)

\* a variant of encode_utf8_ that knows no code point above 0xFFFF
encode_utf8_ThreeBytes(cp) ==
    IF cp <= 127 THEN [ok |-> TRUE, bytes |-> <<cp>>]
    ELSE IF cp <= 2047
    THEN [ok |-> TRUE, bytes |-> <<BitOr(192, cp \div 64), BitOr(128, cp % 64)>>]
    ELSE [ok |-> TRUE,
          bytes |-> <<BitOr(224, (cp \div 4096) % 16), BitOr(128, (cp \div 64) % 64),
                      BitOr(128, cp % 64)>>]

\* x >> n is x \div 2^n, x & 0x3F is x % 64
encode_utf8_(cp) ==
    IF cp <= 127 THEN [ok |-> TRUE, bytes |-> <<cp>>]
    ELSE IF cp <= 2047
    THEN [ok |-> TRUE, bytes |-> <<BitOr(192, cp \div 64), BitOr(128, cp % 64)>>]
    ELSE IF cp <= 65535
    THEN [ok |-> TRUE,
          bytes |-> <<BitOr(224, cp \div 4096), BitOr(128, (cp \div 64) % 64),
                      BitOr(128, cp % 64)>>]
    ELSE IF cp <= 1114111
    THEN [ok |-> TRUE,
          bytes |-> <<BitOr(240, cp \div 262144), BitOr(128, (cp \div 4096) % 64),
                      BitOr(128, (cp \div 64) % 64), BitOr(128, cp % 64)>>]
    ELSE [ok |-> FALSE, bytes |-> <<>>]

AllXDigits(s, p) == \A i \in 1..4 : IsXDigit(s[p + i])
Hex4(s, p) ==
    4096 * HexVal(s[p + 1]) + 256 * HexVal(s[p + 2]) + 16 * HexVal(s[p + 3])
        + HexVal(s[p + 4])

\* the byte a two-character escape stands for
EscapeByte(esc) ==
    CASE esc = 34 -> 34 [] esc = 92 -> 92 [] esc = 47 -> 47 [] esc = 98 -> 8
      [] esc = 102 -> 12 [] esc = 110 -> 10 [] esc = 114 -> 13 [] esc = 116 -> 9

\* a variant of case 'u' that takes every code unit for a code point
UnicodeEscapeLenient(s, q) ==
    IF q + 4 > Len(s)
    THEN [ok |-> FALSE, cp |-> 0, pos |-> q, err |-> Err("Incomplete \\u escape sequence")]
    ELSE IF ~AllXDigits(s, q)
    THEN [ok |-> FALSE, cp |-> 0, pos |-> q,
          err |-> Err("Invalid hex digit in \\u escape sequence")]
    ELSE [ok |-> TRUE, pos |-> q + 4, err |-> Err(""), cp |-> Hex4(s, q)]

\* case 'u' of parse_string_, q the cursor behind the 'u': the code point
\* and the cursor behind the escape, or the invalid token
UnicodeEscape(s, q) ==
    LET n == Len(s)
        bad(text, p) == [ok |-> FALSE, cp |-> 0, pos |-> p, err |-> Err(text)]
    IN  IF q + 4 > n THEN bad("Incomplete \\u escape sequence", q)
        ELSE IF ~AllXDigits(s, q)
        THEN bad("Invalid hex digit in \\u escape sequence", q)
        ELSE
        LET code_unit == Hex4(s, q)
            q4 == q + 4
        IN  IF code_unit >= 55296 /\ code_unit <= 56319
            THEN IF q4 + 6 > n \/ s[q4 + 1] /= 92 \/ s[q4 + 2] /= 117
                 THEN bad("Expected low surrogate after high surrogate", q4)
                 ELSE IF ~AllXDigits(s, q4 + 2)
                 THEN bad("Invalid hex digit in low surrogate", q4 + 2)
                 ELSE LET low == Hex4(s, q4 + 2)
                      IN  IF low < 56320 \/ low > 57343
                          THEN bad("Invalid low surrogate in \\u escape sequence", q4 + 2)
                          ELSE [ok |-> TRUE, pos |-> q4 + 6, err |-> Err(""),
                                \* 0x10000 + (((code_unit - 0xD800) << 10) | (low - 0xDC00))
                                cp |-> 65536 + BitOr((code_unit - 55296) * 1024, low - 56320)]
            ELSE IF code_unit >= 56320 /\ code_unit <= 57343
            THEN bad("Unexpected low surrogate without preceding high surrogate", q4)
            ELSE [ok |-> TRUE, pos |-> q4, err |-> Err(""), cp |-> code_unit]

\* a variant of the loop that takes raw control bytes into the string
RECURSIVE StringLoopRaw(_, _, _)
StringLoopRaw(s, p, result) ==
    IF p >= Len(s) THEN Lexed(Invalid(Err("Unterminated string")), p)
    ELSE
    LET ch == s[p + 1]
    IN  IF ch = 34 THEN Lexed(Token("string_value", JString(result)), p + 1)
        ELSE IF ch = 92
        THEN IF p + 1 >= Len(s)
             THEN Lexed(Invalid(Err("Unterminated string escape")), p + 1)
             ELSE
             LET esc == s[p + 2]
             IN  IF esc = 117
                 THEN LET u == UnicodeEscape(s, p + 2)
                          enc == encode_utf8_(u.cp)
                      IN  IF ~u.ok THEN Lexed(Invalid(u.err), u.pos)
                          ELSE IF ~enc.ok
                          THEN Lexed(Invalid(Err("Invalid Unicode code point in \\u escape sequence")), u.pos)
                          ELSE StringLoopRaw(s, u.pos, result \o enc.bytes)
                 ELSE IF esc \in {34, 92, 47, 98, 102, 110, 114, 116}
                 THEN StringLoopRaw(s, p + 2, Append(result, EscapeByte(esc)))
                 ELSE Lexed(Invalid(ErrCh("Invalid escape sequence: \\", esc)), p + 1)
        ELSE StringLoopRaw(s, p + 1, Append(result, ch))

\* the loop of parse_string_, p the cursor and result the bytes so far
RECURSIVE StringLoop(_, _, _)
StringLoop(s, p, result) ==
    IF p >= Len(s) THEN Lexed(Invalid(Err("Unterminated string")), p)
    ELSE
    LET ch == s[p + 1]
    IN  IF ch = 34 THEN Lexed(Token("string_value", JString(result)), p + 1)
        ELSE IF ch = 92
        THEN IF p + 1 >= Len(s)
             THEN Lexed(Invalid(Err("Unterminated string escape")), p + 1)
             ELSE
             LET esc == s[p + 2]
             IN  IF esc = 117
                 THEN LET u == UnicodeEscape(s, p + 2)
                          enc == encode_utf8_(u.cp)
                      IN  IF ~u.ok THEN Lexed(Invalid(u.err), u.pos)
                          ELSE IF ~enc.ok
                          THEN Lexed(Invalid(Err("Invalid Unicode code point in \\u escape sequence")), u.pos)
                          ELSE StringLoop(s, u.pos, result \o enc.bytes)
                 ELSE IF esc \in {34, 92, 47, 98, 102, 110, 114, 116}
                 THEN StringLoop(s, p + 2, Append(result, EscapeByte(esc)))
                 ELSE Lexed(Invalid(ErrCh("Invalid escape sequence: \\", esc)), p + 1)
        ELSE IF ch < 32
        THEN Lexed(Invalid(ErrCh("Control character in string: ", ch)), p)
        ELSE StringLoop(s, p + 1, Append(result, ch))

parse_string_(s, p) == StringLoop(s, p + 1, <<>>)

true_str == Str(<<"t", "r", "u", "e">>)
false_str == Str(<<"f", "a", "l", "s", "e">>)
null_str == Str(<<"n", "u", "l", "l">>)

next_token(s, p0, asrt) ==
    LET p == skip_whitespaces_(s, p0)
    IN  IF p >= Len(s) THEN Lexed(Token("end_of_file", Null), p)
        ELSE
        LET ch == s[p + 1]
        IN  CASE ch = 123 -> Lexed(Token("left_brace", Null), p + 1)
              [] ch = 125 -> Lexed(Token("right_brace", Null), p + 1)
              [] ch = 91 -> Lexed(Token("left_bracket", Null), p + 1)
              [] ch = 93 -> Lexed(Token("right_bracket", Null), p + 1)
              [] ch = 58 -> Lexed(Token("colon", Null), p + 1)
              [] ch = 44 -> Lexed(Token("comma", Null), p + 1)
              [] ch = 34 -> parse_string_(s, p)
              [] IsDigit(ch) \/ ch = 45 -> parse_number_(s, p, asrt)
              [] OTHER ->
                 IF starts_with_(s, p, true_str)
                 THEN Lexed(Token("bool_value", ValueOfBool(TRUE)), p + Len(true_str))
                 ELSE IF starts_with_(s, p, false_str)
                 THEN Lexed(Token("bool_value", ValueOfBool(FALSE)), p + Len(false_str))
                 ELSE IF starts_with_(s, p, null_str)
                 THEN Lexed(Token("null_value", Null), p + Len(null_str))
                 ELSE Lexed(Invalid(ErrCh("Unexpected character: ", ch)), p)

-----------------------------------------------------------------------------
(* json_parser                                                             *)

Top(stk) == stk[Len(stk)]
Pop(stk) == SubSeq(stk, 1, Len(stk) - 1)
SetTop(stk, x) == [stk EXCEPT ![Len(stk)] = x]

\* log_error_ on the message: a further line
\* a variant of log_error_ that drops the text
log_error_Silent(msgs, text) == msgs
log_error_(msgs, text) == Append(msgs, text)

\* The locals of parse_complex_ and the parser's members it writes: done
\* when it has returned (result is what it returned), ub when it has read
\* top() of an empty key_stack.
Frame(stk, valid, msgs) ==
    [stack |-> stk, key_stack |-> <<>>,
     context |-> IF Is(Top(stk), "object") THEN "object" ELSE "array",
     token_expected |-> IF Is(Top(stk), "object") THEN "key" ELSE "value",
     dangling_comma |-> FALSE,
     is_valid |-> valid, error_message |-> msgs,
     done |-> FALSE, result |-> Null, ub |-> FALSE]

Fail(st, text) ==
    [st EXCEPT !.is_valid = FALSE,
               !.error_message = log_error_(@, Err(text)),
               !.done = TRUE, !.result = Null]

ContextOf(x) == IF Is(x, "object") THEN "object" ELSE "array"

\* a completed child is attached to the frame that is now on top
Attach(st, rest, complete_node) ==
    IF ContextOf(Top(rest)) = "array"
    THEN [st EXCEPT !.stack = SetTop(rest, JArray(Append(Top(rest).v, complete_node))),
                    !.context = "array", !.token_expected = "comma"]
    ELSE IF st.key_stack = <<>>
    THEN [st EXCEPT !.stack = rest, !.context = "object", !.ub = TRUE, !.done = TRUE]
    ELSE [st EXCEPT !.stack = SetTop(rest, JObject(ObjEmplace(Top(rest).v,
                                                   Top(st.key_stack), complete_node))),
                    !.key_stack = Pop(@),
                    !.context = "object", !.token_expected = "comma"]

OnLeftBrace(st) ==
    IF st.token_expected = "value"
    THEN [st EXCEPT !.stack = Append(@, JObject(EmptyObject)),
                    !.context = "object", !.token_expected = "key",
                    !.dangling_comma = FALSE]
    ELSE Fail(st, "Unexpected left brace in array or object context")

\* a variant of the right_brace branch that closes the frame on top
\* whatever its kind
OnRightBraceAnyContext(st) ==
    IF st.dangling_comma /\ st.token_expected = "key"
    THEN Fail(st, "Dangling comma before right brace in object context")
    ELSE IF Pop(st.stack) = <<>>
    THEN [st EXCEPT !.stack = <<>>, !.done = TRUE, !.result = Top(st.stack)]
    ELSE Attach([st EXCEPT !.dangling_comma = FALSE], Pop(st.stack), Top(st.stack))

OnRightBrace(st) ==
    IF st.dangling_comma /\ st.token_expected = "key"
    THEN Fail(st, "Dangling comma before right brace in object context")
    ELSE IF st.context = "object"
    THEN IF Pop(st.stack) = <<>>
         THEN [st EXCEPT !.stack = <<>>, !.done = TRUE, !.result = Top(st.stack)]
         ELSE Attach([st EXCEPT !.dangling_comma = FALSE], Pop(st.stack), Top(st.stack))
    ELSE Fail(st, "Unexpected right brace in array context")

\* a variant of the left_bracket branch that opens the array in the place
\* of the frame on top
OnLeftBracketInPlace(st) ==
    IF st.token_expected = "value"
    THEN [st EXCEPT !.stack = SetTop(@, JArray(<<>>)),
                    !.context = "array", !.dangling_comma = FALSE]
    ELSE Fail(st, "Unexpected left bracket in array or object context")

OnLeftBracket(st) ==
    IF st.token_expected = "value"
    THEN [st EXCEPT !.stack = Append(@, JArray(<<>>)),
                    !.context = "array", !.dangling_comma = FALSE]
    ELSE Fail(st, "Unexpected left bracket in array or object context")

\* a variant of OnRightBracket without the test of dangling_comma
OnRightBracketLenient(st) ==
    IF st.context = "array"
    THEN IF Pop(st.stack) = <<>>
         THEN [st EXCEPT !.stack = <<>>, !.done = TRUE, !.result = Top(st.stack)]
         ELSE Attach(st, Pop(st.stack), Top(st.stack))
    ELSE Fail(st, "Unexpected right bracket in object context")

OnRightBracket(st) ==
    IF st.dangling_comma /\ st.token_expected = "value"
    THEN Fail(st, "Dangling comma before right bracket in array context")
    ELSE IF st.context = "array"
    THEN IF Pop(st.stack) = <<>>
         THEN [st EXCEPT !.stack = <<>>, !.done = TRUE, !.result = Top(st.stack)]
         ELSE Attach(st, Pop(st.stack), Top(st.stack))
    ELSE Fail(st, "Unexpected right bracket in object context")

\* a variant of UnexpectedValue whose diagnostic names the colon
UnexpectedValueNamingColon(st) ==
    Fail(st, IF st.token_expected = "colon"
             THEN "Unexpected colon in array or object context"
             ELSE "Unexpected value in array or object context")

\* the last branch of the value token: neither a key nor a value is expected
UnexpectedValue(st) == Fail(st, "Unexpected value in array or object context")

\* a variant of the value branch that does not keep the key it is handed
OnValueKeyNotKept(st, token) ==
    IF st.token_expected = "key" /\ st.context = "object"
    THEN IF ~Is(token.value, "string")
         THEN Fail(st, "Expected string key in object context")
         ELSE IF token.value.v = <<>>
         THEN Fail(st, "Empty key in object context")
         ELSE [st EXCEPT !.token_expected = "colon"]
    ELSE IF st.token_expected = "value"
    THEN IF st.context = "object"
         THEN IF st.key_stack = <<>>
              THEN [st EXCEPT !.ub = TRUE, !.done = TRUE]
              ELSE [st EXCEPT !.stack = SetTop(@, JObject(ObjAssign(Top(@).v,
                                                  Top(st.key_stack), token.value))),
                              !.key_stack = Pop(@),
                              !.token_expected = "comma"]
         ELSE [st EXCEPT !.stack = SetTop(@, JArray(Append(Top(@).v, token.value))),
                         !.token_expected = "comma"]
    ELSE UnexpectedValue(st)

\* a variant of the value branch that takes any string for a key
OnValueAnyStringKey(st, token) ==
    IF st.token_expected = "key" /\ st.context = "object"
    THEN IF ~Is(token.value, "string")
         THEN Fail(st, "Expected string key in object context")
         ELSE [st EXCEPT !.key_stack = Append(@, token.value.v),
                         !.token_expected = "colon"]
    ELSE IF st.token_expected = "value"
    THEN IF st.context = "object"
         THEN IF st.key_stack = <<>>
              THEN [st EXCEPT !.ub = TRUE, !.done = TRUE]
              ELSE [st EXCEPT !.stack = SetTop(@, JObject(ObjAssign(Top(@).v,
                                                  Top(st.key_stack), token.value))),
                              !.key_stack = Pop(@),
                              !.token_expected = "comma"]
         ELSE [st EXCEPT !.stack = SetTop(@, JArray(Append(Top(@).v, token.value))),
                         !.token_expected = "comma"]
    ELSE UnexpectedValue(st)

OnValue(st, token) ==
    IF st.token_expected = "key" /\ st.context = "object"
    THEN IF ~Is(token.value, "string")
         THEN Fail(st, "Expected string key in object context")
         ELSE IF token.value.v = <<>>
         THEN Fail([st EXCEPT !.key_stack = Append(@, token.value.v)],
                   "Empty key in object context")
         ELSE [st EXCEPT !.key_stack = Append(@, token.value.v),
                         !.token_expected = "colon"]
    ELSE IF st.token_expected = "value"
    THEN IF st.context = "object"
         THEN IF st.key_stack = <<>>
              THEN [st EXCEPT !.ub = TRUE, !.done = TRUE]
              ELSE [st EXCEPT !.stack = SetTop(@, JObject(ObjAssign(Top(@).v,
                                                  Top(st.key_stack), token.value))),
                              !.key_stack = Pop(@),
                              !.token_expected = "comma"]
         ELSE [st EXCEPT !.stack = SetTop(@, JArray(Append(Top(@).v, token.value))),
                         !.token_expected = "comma"]
    ELSE UnexpectedValue(st)

\* a variant of the comma branch that takes a comma wherever no key or
\* colon is awaited
OnCommaAnywhere(st) ==
    IF st.token_expected \in {"comma", "value"}
    THEN [st EXCEPT !.token_expected = IF st.context = "array" THEN "value" ELSE "key",
                    !.dangling_comma = TRUE]
    ELSE Fail(st, "Unexpected comma in array or object context")

OnComma(st) ==
    IF st.token_expected = "comma"
    THEN [st EXCEPT !.token_expected = IF st.context = "array" THEN "value" ELSE "key",
                    !.dangling_comma = TRUE]
    ELSE Fail(st, "Unexpected comma in array or object context")

OnColon(st) ==
    IF st.token_expected = "colon" /\ st.context = "object"
    THEN [st EXCEPT !.token_expected = "value"]
    ELSE Fail(st, "Unexpected colon in array or object context")

\* one iteration of the loop of parse_complex_ on the token just read
ComplexStep(st, token) ==
    CASE token.type = "left_brace" -> OnLeftBrace(st)
      [] token.type = "right_brace" -> OnRightBrace(st)
      [] token.type = "left_bracket" -> OnLeftBracket(st)
      [] token.type = "right_bracket" -> OnRightBracket(st)
      [] token.type = "end_of_file" ->
            Fail(st, "Unexpected end of file in array or object context")
      [] token.type = "invalid" ->
            [st EXCEPT !.is_valid = FALSE,
                       !.error_message = log_error_(@, token.error_str),
                       !.done = TRUE, !.result = Null]
      [] is_value_token(token.type) -> OnValue(st, token)
      [] token.type = "comma" -> OnComma(st)
      [] token.type = "colon" -> OnColon(st)
      [] OTHER ->
            [st EXCEPT !.is_valid = FALSE,
                       !.error_message =
                           log_error_(@, ErrCat("Unexpected token in array: ", token.error_str)),
                       !.done = TRUE, !.result = Null]

\* the parser's state as parse_complex_ sees it
Current ==
    [stack |-> stack, key_stack |-> key_stack, context |-> context,
     token_expected |-> token_expected, dangling_comma |-> dangling_comma,
     is_valid |-> p_is_valid, error_message |-> p_error_message,
     done |-> FALSE, result |-> Null, ub |-> FALSE]

\* the parser's state becomes st; a return of parse_complex_ assigns root
Become(st) ==
    /\ stack' = st.stack
    /\ key_stack' = st.key_stack
    /\ context' = st.context
    /\ token_expected' = st.token_expected
    /\ dangling_comma' = st.dangling_comma
    /\ p_is_valid' = st.is_valid
    /\ p_error_message' = st.error_message
    /\ p_root' = IF st.done /\ ~st.ub THEN st.result ELSE p_root
    /\ pc' = IF st.ub THEN "undefined" ELSE IF st.done THEN "trailing" ELSE "complex"

\* from_string, up to the construction of the parser and its lexer
FromString(str) ==
    /\ pc = "idle"
    /\ pc' = "parse"
    /\ source' = str
    /\ pos' = 0
    /\ p_is_valid' = TRUE
    /\ p_error_message' = <<>>
    /\ p_root' = Null
    /\ stack' = <<>>
    /\ key_stack' = <<>>
    /\ context' = "array"
    /\ token_expected' = "value"
    /\ dangling_comma' = FALSE
    /\ last_token' = Token("end_of_file", Null)
    /\ calls' = calls + 1
    /\ UNCHANGED <<doc_vars, out, asserts, given, answer, fmt>>

\* parse(), from the first next_token to the dispatch on it
ParseRoot ==
    /\ pc = "parse"
    /\ LET r == next_token(source, pos, asserts)
           token == r.tok
       IN  /\ pos' = r.pos
           /\ IF r.abort
              THEN /\ pc' = "aborted"
                   /\ UNCHANGED <<p_is_valid, p_error_message, p_root, stack, key_stack,
                                  context, token_expected, dangling_comma, last_token>>
              ELSE /\ last_token' = token
                   /\ IF token.type = "end_of_file"
                      THEN /\ p_is_valid' = FALSE
                           /\ p_error_message' =
                                  log_error_(p_error_message, Err("Empty JSON document"))
                           /\ pc' = "return"
                           /\ UNCHANGED <<p_root, stack, key_stack, context,
                                          token_expected, dangling_comma>>
                      ELSE IF ~token.is_valid \/ token.type = "invalid"
                      THEN /\ p_is_valid' = FALSE
                           /\ p_error_message' = log_error_(p_error_message, token.error_str)
                           /\ pc' = "return"
                           /\ UNCHANGED <<p_root, stack, key_stack, context,
                                          token_expected, dangling_comma>>
                      ELSE IF is_value_token(token.type)
                      THEN /\ p_root' = token.value
                           /\ pc' = "trailing"
                           /\ UNCHANGED <<p_is_valid, p_error_message, stack, key_stack,
                                          context, token_expected, dangling_comma>>
                      ELSE IF token.type = "left_brace"
                      THEN Become(Frame(<<JObject(EmptyObject)>>, p_is_valid, p_error_message))
                      ELSE IF token.type = "left_bracket"
                      THEN Become(Frame(<<JArray(<<>>)>>, p_is_valid, p_error_message))
                      ELSE /\ p_is_valid' = FALSE
                           /\ p_error_message' =
                                  log_error_(p_error_message,
                                             ErrCat("Unexpected token in root: ", token.error_str))
                           /\ pc' = "return"
                           /\ UNCHANGED <<p_root, stack, key_stack, context,
                                          token_expected, dangling_comma>>
    /\ UNCHANGED <<doc_vars, source, out, asserts, calls, given, answer, fmt>>

\* one iteration of the loop of parse_complex_: next_token and its branch
ParseComplexStep ==
    /\ pc = "complex"
    /\ LET r == next_token(source, pos, asserts)
       IN  /\ pos' = r.pos
           /\ IF r.abort
              THEN /\ pc' = "aborted"
                   /\ UNCHANGED <<p_is_valid, p_error_message, p_root, stack, key_stack,
                                  context, token_expected, dangling_comma, last_token>>
              ELSE /\ last_token' = r.tok
                   /\ Become(ComplexStep(Current, r.tok))
    /\ UNCHANGED <<doc_vars, source, out, asserts, calls, given, answer, fmt>>

\* parse(), the check for end of input behind the root and the return
ParseTrailing ==
    /\ pc = "trailing"
    /\ LET r == next_token(source, pos, asserts)
       IN  /\ pos' = r.pos
           /\ IF r.abort
              THEN /\ pc' = "aborted"
                   /\ UNCHANGED <<p_is_valid, p_error_message, p_root, last_token>>
              ELSE /\ last_token' = r.tok
                   /\ pc' = "return"
                   /\ IF r.tok.type /= "end_of_file"
                      THEN /\ p_is_valid' = FALSE
                           /\ p_error_message' =
                                  log_error_(p_error_message,
                                             Err("Unexpected tokens after JSON document end"))
                           /\ p_root' = Null
                      ELSE UNCHANGED <<p_is_valid, p_error_message, p_root>>
    /\ UNCHANGED <<doc_vars, source, stack, key_stack, context, token_expected,
                   dangling_comma, out, asserts, calls, given, answer, fmt>>

\* from_string, behind parser.parse()
\* a variant of the end of from_string that moves parsed into root_ also
\* when the parser failed
FromStringReturnAssigning ==
    /\ pc = "return"
    /\ pc' = "idle"
    /\ root' = p_root
    /\ is_valid' = p_is_valid
    /\ error_message' = IF p_is_valid THEN <<>> ELSE p_error_message
    /\ UNCHANGED <<parser_vars, out, asserts, calls, given, answer, fmt>>

FromStringReturn ==
    /\ pc = "return"
    /\ pc' = "idle"
    /\ IF p_is_valid
       THEN /\ root' = p_root
            /\ is_valid' = TRUE
            /\ error_message' = <<>>
       ELSE /\ is_valid' = FALSE
            /\ error_message' = p_error_message
            /\ UNCHANGED root
    /\ UNCHANGED <<parser_vars, out, asserts, calls, given, answer, fmt>>

\* a variant of Set that also marks the document valid
SetValidating(v) ==
    /\ pc = "idle"
    /\ root' = v
    /\ is_valid' = TRUE
    /\ error_message' = <<>>
    /\ calls' = calls + 1
    /\ UNCHANGED <<pc, parser_vars, out, asserts, given, answer, fmt>>

\* a variant of empty() that also takes an empty string for empty
emptyOrBlank(r) ==
    \/ Is(r, "null")
    \/ (Is(r, "array") \/ Is(r, "string")) /\ Len(As(r, r.t).ref.v) = 0
    \/ Is(r, "object") /\ DOMAIN As(r, "object").ref.v = {}

\* empty()
empty(r) ==
    \/ Is(r, "null")
    \/ Is(r, "array") /\ Len(As(r, "array").ref.v) = 0
    \/ Is(r, "object") /\ DOMAIN As(r, "object").ref.v = {}

\* a client's call of empty()
Empty ==
    /\ pc = "idle"
    /\ answer' = [op |-> "empty", result |-> empty(root)]
    /\ UNCHANGED <<doc_vars, pc, parser_vars, out, asserts, calls, given, fmt>>

\* set(root)
Set(v) ==
    /\ pc = "idle"
    /\ root' = v
    /\ calls' = calls + 1
    /\ UNCHANGED <<is_valid, error_message, pc, parser_vars, out, asserts, given, answer, fmt>>

\* clear()
Clear ==
    /\ pc = "idle"
    /\ root' = Null
    /\ calls' = calls + 1
    /\ UNCHANGED <<is_valid, error_message, pc, parser_vars, out, asserts, given, answer, fmt>>

-----------------------------------------------------------------------------
(* json_document: the serializer                                           *)

Bytes(d) == [i \in 1..Len(d) |-> d[i] + 48]

RECURSIVE NatDigits(_)
NatDigits(n) == IF n < 10 THEN <<n>> ELSE Append(NatDigits(n \div 10), n % 10)

Repeat(c, n) == [i \in 1..n |-> c]

HexDigit(h) == IF h < 10 THEN 48 + h ELSE 87 + h

\* std::to_string(long long)
IntToString(i) == (IF i.neg THEN <<45>> ELSE <<>>) \o Bytes(i.mag)

\* a digit sequence plus one in its last place; <<>> when the carry runs out
RECURSIVE Incremented(_)
Incremented(d) ==
    IF d = <<>> THEN <<>>
    ELSE IF d[Len(d)] < 9 THEN [d EXCEPT ![Len(d)] = @ + 1]
    ELSE LET rest == Incremented(SubSeq(d, 1, Len(d) - 1))
         IN  IF rest = <<>> THEN <<>> ELSE Append(rest, 0)

\* precision(15): the value rounded to 15 significant digits (a tie of the
\* decimal digits is rounded up)
Rounded15(f) ==
    IF Len(f.mant) <= 15 THEN f
    ELSE IF f.mant[16] < 5
    THEN [f EXCEPT !.mant = StripTrailingZeros(SubSeq(f.mant, 1, 15))]
    ELSE IF Incremented(SubSeq(f.mant, 1, 15)) = <<>>
    THEN [f EXCEPT !.mant = <<1>>, !.exp = @ + 1]
    ELSE [f EXCEPT !.mant = StripTrailingZeros(Incremented(SubSeq(f.mant, 1, 15)))]

\* the text of %.15g for a value of at most 15 significant digits
FormatG(f) ==
    LET sign == IF f.neg THEN <<45>> ELSE <<>>
        x == f.exp - 1
        n == Len(f.mant)
    IN  IF f.mant = <<>> THEN sign \o <<48>>
        ELSE IF x < 0 - 4 \/ x >= 15
        THEN sign \o <<48 + f.mant[1]>>
                  \o (IF n > 1 THEN <<46>> \o Bytes(Tail(f.mant)) ELSE <<>>)
                  \o <<101, IF x < 0 THEN 45 ELSE 43>>
                  \o (LET a == IF x < 0 THEN 0 - x ELSE x
                      IN  IF a < 10 THEN <<48>> \o Bytes(NatDigits(a))
                          ELSE Bytes(NatDigits(a)))
        ELSE IF x >= 0
        THEN IF n <= x + 1
             THEN sign \o Bytes(f.mant) \o Repeat(48, x + 1 - n)
             ELSE sign \o Bytes(SubSeq(f.mant, 1, x + 1)) \o <<46>>
                       \o Bytes(SubSeq(f.mant, x + 2, n))
        ELSE sign \o <<48, 46>> \o Repeat(48, 0 - x - 1) \o Bytes(f.mant)

\* operator<< of a double at precision(15): printf's %.15g
DoubleToString(f) == FormatG(Rounded15(f))

\* the text format_string_ writes for one byte
\* a variant of the switch of format_string_ without the case of the backslash
EscapeOfPlainBackslash(c) ==
    CASE c = 34 -> <<92, 34>>
      [] c = 8 -> <<92, 98>>
      [] c = 12 -> <<92, 102>>
      [] c = 10 -> <<92, 110>>
      [] c = 13 -> <<92, 114>>
      [] c = 9 -> <<92, 116>>
      [] OTHER -> IF c < 32
                  THEN <<92, 117, 48, 48, HexDigit(c \div 16), HexDigit(c % 16)>>
                  ELSE <<c>>

\* the switch of format_string_ on one byte
EscapeOf(c) ==
    CASE c = 34 -> <<92, 34>>
      [] c = 92 -> <<92, 92>>
      [] c = 8 -> <<92, 98>>
      [] c = 12 -> <<92, 102>>
      [] c = 10 -> <<92, 110>>
      [] c = 13 -> <<92, 114>>
      [] c = 9 -> <<92, 116>>
      [] OTHER -> IF c < 32
                  THEN <<92, 117, 48, 48, HexDigit(c \div 16), HexDigit(c % 16)>>
                  ELSE <<c>>

RECURSIVE EscapeAll(_)
EscapeAll(value) ==
    IF value = <<>> THEN <<>> ELSE EscapeOf(Head(value)) \o EscapeAll(Tail(value))

format_string_(value) == <<34>> \o EscapeAll(value) \o <<34>>

format_simple_node_(value) ==
    IF Is(value, "bool")
    THEN IF value.v THEN true_str ELSE false_str
    ELSE IF Is(value, "int") THEN IntToString(value.v)
    ELSE IF Is(value, "double") THEN DoubleToString(value.v)
    ELSE IF Is(value, "string") THEN format_string_(value.v)
    ELSE null_str

indent_size == 4

\* a stack_frame of format_complex_node_; ptr is the value it points to
StackFrame(x) == [ptr |-> x, index |-> 0, size |-> 0, keys |-> <<>>]

Indent(f) == Repeat(32, f.indent_level * indent_size)

\* the lambda check_comma
check_comma(f) ==
    IF f.stack /= <<>>
    THEN IF Top(f.stack).index < Top(f.stack).size
         THEN [f EXCEPT !.oss = @ \o <<44, 10>>]
         ELSE [f EXCEPT !.oss = @ \o <<10>>]
    ELSE f

\* the child of a frame at its index, and the text written before it
ChildAt(frame) ==
    IF Is(frame.ptr, "array") THEN frame.ptr.v[frame.index + 1]
    ELSE frame.ptr.v[frame.keys[frame.index + 1]]
LabelAt(frame) ==
    IF Is(frame.ptr, "array") THEN <<>>
    ELSE format_string_(frame.keys[frame.index + 1]) \o <<58, 32>>

\* the inner while loop over the children of the top frame
RECURSIVE ChildLoop(_)
ChildLoop(f) ==
    LET frame == Top(f.stack)
    IN  IF frame.index >= frame.size THEN [f EXCEPT !.next = FALSE]
        ELSE
        LET val == ChildAt(frame)
            oss1 == f.oss \o Indent(f) \o LabelAt(frame)
        IN  IF IsComplex(val)
            THEN [f EXCEPT !.oss = oss1,
                           !.stack = Append(SetTop(@, [frame EXCEPT !.index = @ + 1]),
                                            StackFrame(val)),
                           !.next = TRUE]
            ELSE ChildLoop(
                   [f EXCEPT !.oss = oss1 \o format_simple_node_(val)
                                          \o (IF frame.index < frame.size - 1
                                              THEN <<44, 10>> ELSE <<10>>),
                             !.stack = SetTop(@, [frame EXCEPT !.index = @ + 1])])

\* a variant of the iteration that closes a container without taking the
\* indentation back
FormatStepNoDedent(f, order) ==
    LET frame == Top(f.stack)
        isArr == Is(frame.ptr, "array")
        size == IF isArr THEN Len(frame.ptr.v) ELSE Cardinality(DOMAIN frame.ptr.v)
        open == IF isArr THEN 91 ELSE 123
        close == IF isArr THEN 93 ELSE 125
    IN  IF size = 0
        THEN check_comma([f EXCEPT !.oss = @ \o <<open, close>>, !.stack = Pop(@)])
        ELSE
        LET frame1 == [frame EXCEPT !.size = size,
                                    !.keys = IF isArr THEN @
                                             ELSE @ \o order[DOMAIN frame.ptr.v]]
            f1 == [f EXCEPT !.stack = SetTop(@, frame1),
                            !.oss = IF frame.index = 0 THEN @ \o <<open, 10>> ELSE @,
                            !.indent_level = IF frame.index = 0 THEN @ + 1 ELSE @]
            f2 == ChildLoop(f1)
        IN  IF f2.next THEN f2
            ELSE check_comma([f2 EXCEPT !.oss = @ \o Repeat(32, (f2.indent_level - 1) * indent_size)
                                                  \o <<close>>,
                                        !.stack = Pop(@)])

\* one iteration of the outer loop of format_complex_node_; order gives the
\* iteration order of an unordered_map with these keys
FormatStep(f, order) ==
    LET frame == Top(f.stack)
        isArr == Is(frame.ptr, "array")
        size == IF isArr THEN Len(frame.ptr.v) ELSE Cardinality(DOMAIN frame.ptr.v)
        open == IF isArr THEN 91 ELSE 123
        close == IF isArr THEN 93 ELSE 125
    IN  IF size = 0
        THEN check_comma([f EXCEPT !.oss = @ \o <<open, close>>, !.stack = Pop(@)])
        ELSE
        LET frame1 == [frame EXCEPT !.size = size,
                                    !.keys = IF isArr THEN @
                                             ELSE @ \o order[DOMAIN frame.ptr.v]]
            f1 == [f EXCEPT !.stack = SetTop(@, frame1),
                            !.oss = IF frame.index = 0 THEN @ \o <<open, 10>> ELSE @,
                            !.indent_level = IF frame.index = 0 THEN @ + 1 ELSE @]
            f2 == ChildLoop(f1)
        IN  IF f2.next THEN f2
            ELSE check_comma([f2 EXCEPT !.indent_level = @ - 1,
                                        !.oss = @ \o Repeat(32, (f2.indent_level - 1) * indent_size)
                                                  \o <<close>>,
                                        !.stack = Pop(@)])

RECURSIVE FormatRun(_, _)
FormatRun(f, order) ==
    IF f.stack = <<>> THEN f ELSE FormatRun(FormatStep(f, order), order)

format_complex_node_(value, order) ==
    FormatRun([stack |-> <<StackFrame(value)>>, indent_level |-> 0, oss |-> <<>>,
               next |-> FALSE], order).oss

to_string(value, order) ==
    IF IsComplex(value) THEN format_complex_node_(value, order)
    ELSE format_simple_node_(value)

\* the key sets of the objects of a tree, and the orders in which the
\* unordered_maps of a tree may iterate
RECURSIVE KeySets(_)
KeySets(x) ==
    IF Is(x, "array") THEN UNION {KeySets(x.v[i]) : i \in DOMAIN x.v}
    ELSE IF Is(x, "object")
    THEN {DOMAIN x.v} \cup UNION {KeySets(x.v[k]) : k \in DOMAIN x.v}
    ELSE {}

Perms(K) == {p \in [1..Cardinality(K) -> K] : \A i, j \in DOMAIN p : p[i] = p[j] => i = j}

Orders(x) ==
    {o \in [KeySets(x) -> UNION {Perms(K) : K \in KeySets(x)}] :
        \A K \in KeySets(x) : o[K] \in Perms(K)}

\* The recursive form of the renderer (format_value_, format_array_,
\* format_object_), with the default indent_step; order as in FormatStep.
indent_step == 4

RECURSIVE format_value_(_, _, _), ArrayLines(_, _, _, _), ObjectLines(_, _, _, _, _)

\* the loop of format_array_ from element i on
ArrayLines(value, i, indent_level, order) ==
    IF i > Len(value) THEN <<>>
    ELSE Repeat(32, (indent_level + 1) * indent_step)
         \o format_value_(value[i], indent_level + 1, order)
         \o (IF i < Len(value) THEN <<44>> ELSE <<>>) \o <<10>>
         \o ArrayLines(value, i + 1, indent_level, order)

format_array_(value, indent_level, order) ==
    IF Len(value) = 0 THEN Str(<<"[", " ", "]">>)
    ELSE <<91, 10>> \o ArrayLines(value, 1, indent_level, order)
         \o Repeat(32, indent_level * indent_step) \o <<93>>

\* the loop of format_object_ from the i-th member of the iteration on
ObjectLines(value, keys, i, indent_level, order) ==
    IF i > Len(keys) THEN <<>>
    ELSE Repeat(32, (indent_level + 1) * indent_step)
         \o format_string_(keys[i]) \o <<58, 32>>
         \o format_value_(value[keys[i]], indent_level + 1, order)
         \o (IF i < Len(keys) THEN <<44>> ELSE <<>>) \o <<10>>
         \o ObjectLines(value, keys, i + 1, indent_level, order)

format_object_(value, indent_level, order) ==
    IF DOMAIN value = {} THEN Str(<<"{", " ", "}">>)
    ELSE <<123, 10>> \o ObjectLines(value, order[DOMAIN value], 1, indent_level, order)
         \o Repeat(32, indent_level * indent_step) \o <<125>>

format_value_(value, indent_level, order) ==
    IF Is(value, "null") THEN null_str
    ELSE IF Is(value, "bool") THEN (IF value.v THEN true_str ELSE false_str)
    ELSE IF Is(value, "int") THEN IntToString(value.v)
    ELSE IF Is(value, "double") THEN DoubleToString(value.v)
    ELSE IF Is(value, "string") THEN format_string_(value.v)
    ELSE IF Is(value, "array") THEN format_array_(value.v, indent_level, order)
    ELSE format_object_(value.v, indent_level, order)

\* both renderers on the root, under one iteration order of its objects
RenderBoth ==
    /\ pc = "idle"
    /\ \E order \in Orders(root) :
          /\ out' = to_string(root, order)
          /\ answer' = [op |-> "format_value_", result |-> format_value_(root, 0, order)]
    /\ calls' = calls + 1
    /\ UNCHANGED <<doc_vars, pc, parser_vars, asserts, given, fmt>>

\* format_complex_node_ taken one iteration of its outer loop at a time:
\* the locals before the loop, an iteration, and the return of oss.str()
NoFormat == [stack |-> <<>>, indent_level |-> 0, oss |-> <<>>, next |-> FALSE, order |-> <<>>]

FormatBegin ==
    /\ pc = "idle"
    /\ IsComplex(root)
    /\ pc' = "format"
    /\ \E order \in Orders(root) :
          fmt' = [stack |-> <<StackFrame(root)>>, indent_level |-> 0, oss |-> <<>>,
                  next |-> FALSE, order |-> order]
    /\ calls' = calls + 1
    /\ UNCHANGED <<doc_vars, parser_vars, out, asserts, given, answer>>

FormatIterate ==
    /\ pc = "format"
    /\ fmt.stack /= <<>>
    /\ fmt' = FormatStep(fmt, fmt.order)
    /\ UNCHANGED <<doc_vars, pc, parser_vars, out, asserts, calls, given, answer>>

FormatReturn ==
    /\ pc = "format"
    /\ fmt.stack = <<>>
    /\ pc' = "idle"
    /\ out' = fmt.oss
    /\ UNCHANGED <<doc_vars, parser_vars, asserts, calls, given, answer, fmt>>

\* json_document(std::initializer_list<json_value>): the document a client
\* constructs from a list; answer keeps the list it passed
DocumentOfList(list) ==
    /\ pc = "idle"
    /\ root' = json_value_of_list(list)
    /\ answer' = [op |-> "list", list |-> list]
    /\ calls' = calls + 1
    /\ UNCHANGED <<is_valid, error_message, pc, parser_vars, out, asserts, given, fmt>>

\* to_string()
DocToString ==
    /\ pc = "idle"
    /\ \E order \in Orders(root) : out' = to_string(root, order)
    /\ calls' = calls + 1
    /\ UNCHANGED <<doc_vars, pc, parser_vars, asserts, given, answer, fmt>>

-----------------------------------------------------------------------------
(* The inputs the client draws from.                                       *)

MaxToks == 4
MaxNodes == 4
MaxCalls == 3
MaxLexCalls == 6

KeyA == Str(<<"a">>)
KeyB == Str(<<"b">>)
One == JInt(FALSE, <<1>>)

Lexemes ==
    {Str(<<"[">>), Str(<<"]">>), Str(<<"{">>), Str(<<"}">>), Str(<<",">>),
     Str(<<":">>), Str(<<"\"", "a", "\"">>), Str(<<"1">>), Str(<<" ">>)}

\* every text of at most MaxToks lexemes
TokenTexts ==
    {Concat(ls) : ls \in UNION {[1..k -> Lexemes] : k \in 0..MaxToks}}

\* the texts the specification and the tests name
Examples ==
    {Str(<<"[", "1", ",", "2", ",", "{", "\"", "k", "e", "y", "\"", ":",
           "\"", "v", "a", "l", "u", "e", "\"", "}", "]">>),
     Str(<<"[", "1", ",", " ", "2", ",", " ", "{", "\"", "k", "e", "y", "\"", " ",
           "\"", "v", "a", "l", "u", "e", "\"", "}", "]">>),
     Str(<<"{", "\"", "a", "\"", ":", "{", "\"", "b", "\"", ":", "1", "}", ",",
           "\"", "c", "\"", ":", "[", "2", "]", "}">>),
     Str(<<"[", "1", ",", "2", ",", "]">>),
     Str(<<"{", "\"", "a", "\"", ":", "1", ",", "}">>),
     Str(<<"[", "1", ",", "2", "]">>),
     Str(<<"{", "\"", "a", "\"", ":", "1", "}">>),
     Str(<<"[", "1", ",", "]", "1">>),
     Str(<<"[", "1", "]", " ", "2">>),
     Str(<<"1", " ", "2">>),
     Str(<<"{", "}", " ", ",">>),
     Str(<<"t", "r", "u", "e", " ", "x">>),
     Str(<<"\"", "h", "e", "l", "l", "o", "\"">>),
     Str(<<"t", "r", "u", "e">>), Str(<<"f", "a", "l", "s", "e">>),
     Str(<<"n", "u", "l", "l">>), Str(<<"4", "2">>), Str(<<"-", "5">>),
     Str(<<"1", ".", "5">>), Str(<<" ", "1", ".", "5", " ">>),
     Str(<<"1", "e", "5">>), Str(<<"1", "e">>), Str(<<"0", "1">>),
     Str(<<"\"", "\\", "x", "\"">>), Str(<<"\"", "a">>),
     Str(<<"1", "e", "9", "9", "9">>),
     Str(<<"9", "2", "2", "3", "3", "7", "2", "0", "3", "6", "8", "5", "4", "7",
           "7", "5", "8", "0", "8", " ">>),
     <<9>>, <<10>>, <<13>>, <<32, 9, 10, 13>>, <<11>>, <<91, 12, 93>>,
     Str(<<"0">>), Str(<<"-", "0">>), Str(<<"0", ".", "5">>), Str(<<"-", "0", "1">>),
     Str(<<"0", "0">>), Str(<<"[", "0", "1", "]">>), Str(<<"[", "0", ",", "-", "0", "]">>),
     Str(<<"0", "1", ".", "5">>), Str(<<"0", ".", "5", " ">>),
     Str(<<"4", "2", " ">>), Str(<<"-", "5", ",">>), Str(<<"1", ".", "5", "e", "2", " ">>),
     Str(<<"1", "E", "+", "5", "]">>), Str(<<"2", "e", "-", "1", " ">>),
     Str(<<"1", ".">>), Str(<<"1", ".", " ">>), Str(<<"1", ".", "e", "5">>),
     Str(<<"1", "e", "+">>), Str(<<"1", "e", " ">>), Str(<<"1", ".", "5", "E", "x">>),
     Str(<<"-">>), Str(<<"-", " ">>),
     Str(<<"9", "2", "2", "3", "3", "7", "2", "0", "3", "6", "8", "5", "4", "7", "7", "5", "8", "0", "7">>),
     Str(<<"9", "2", "2", "3", "3", "7", "2", "0", "3", "6", "8", "5", "4", "7", "7", "5", "8", "0", "7", " ">>),
     Str(<<"-", "9", "2", "2", "3", "3", "7", "2", "0", "3", "6", "8", "5", "4", "7", "7", "5", "8", "0", "8">>),
     Str(<<"-", "9", "2", "2", "3", "3", "7", "2", "0", "3", "6", "8", "5", "4", "7", "7", "5", "8", "0", "8", " ">>),
     Str(<<"9", "2", "2", "3", "3", "7", "2", "0", "3", "6", "8", "5", "4", "7", "7", "5", "8", "0", "8">>),
     Str(<<"-", "9", "2", "2", "3", "3", "7", "2", "0", "3", "6", "8", "5", "4", "7", "7", "5", "8", "0", "9">>),
     Str(<<"-", "9", "2", "2", "3", "3", "7", "2", "0", "3", "6", "8", "5", "4", "7", "7", "5", "8", "0", "9", " ">>),
     Str(<<"1", "2", "3", "4", "5", "6", "7", "8", "9", "0", "1", "2", "3", "4", "5", "6", "7", "8", "9", "0", "1", "2", "3", "4", "5", "6", "7", "8", "9", "0", " ">>),
     Str(<<"[", "9", "2", "2", "3", "3", "7", "2", "0", "3", "6", "8", "5", "4", "7", "7", "5", "8", "0", "8", "]">>),
     Str(<<"[", "-", "9", "2", "2", "3", "3", "7", "2", "0", "3", "6", "8", "5", "4", "7", "7", "5", "8", "0", "8", "]">>),
     Str(<<"-", "1", "2", "3", "4", "5", "6", "7", "8", "9", "0", "1", "2", "3", "4", "5", "6", "7", "8", "9", "0", "1", "2", "3", "4", "5", "6", "7", "8", "9", "0">>)}

\* the four hex digits of a code unit, in capitals or in small letters
HexChar(d, upper) == IF d < 10 THEN 48 + d ELSE IF upper THEN 55 + d ELSE 87 + d
HexText4(n, upper) ==
    <<HexChar(n \div 4096, upper), HexChar((n \div 256) % 16, upper),
      HexChar((n \div 16) % 16, upper), HexChar(n % 16, upper)>>
UEscape(n, upper) == <<92, 117>> \o HexText4(n, upper)

\* string literals of one high and one low surrogate escape
HighSamples == {55296, 55297, 55298, 55357, 55551, 55552, 55807, 56000, 56318, 56319}
LowSamples == {56320, 56321, 56324, 56576, 56831, 56832, 57000, 57088, 57342, 57343}
PairText(h, l, upper) == <<34>> \o UEscape(h, upper) \o UEscape(l, upper) \o <<34>>
SurrogateTexts ==
    {PairText(h, l, upper) : h \in HighSamples, l \in LowSamples, upper \in BOOLEAN}

\* string literals, alone and inside containers, with an unpaired surrogate
Quoted(body) == <<34>> \o body \o <<34>>
LoneLowBodies ==
    {UEscape(l, upper) : l \in LowSamples, upper \in BOOLEAN}
        \cup {<<97>> \o UEscape(56320, TRUE), UEscape(65, TRUE) \o UEscape(56320, TRUE),
              UEscape(57343, TRUE) \o UEscape(55296, TRUE),
              UEscape(55357, TRUE) \o UEscape(56832, TRUE) \o UEscape(56832, TRUE)}
HighThenQuoteBodies == {UEscape(h, upper) : h \in HighSamples, upper \in BOOLEAN}
HighThenTextBodies ==
    {UEscape(55296, TRUE) \o t :
        t \in {<<97>>, Str(<<"a", "b", "c", "d", "e", "f">>), <<32>> \o UEscape(56320, TRUE),
               <<92, 110>> \o Str(<<"D", "C", "0", "0">>),
               <<92, 92>> \o Str(<<"u", "D", "C", "0", "0">>),
               Str(<<"u", "D", "C", "0", "0", "x">>)}}
HighThenOtherEscapeBodies ==
    {UEscape(h, TRUE) \o UEscape(u, upper) :
        h \in {55296, 55357, 56319}, u \in {0, 65, 55295, 55296, 56319, 57344, 65535},
        upper \in BOOLEAN}
UnpairedBodies ==
    LoneLowBodies \cup HighThenQuoteBodies \cup HighThenTextBodies
        \cup HighThenOtherEscapeBodies
UnpairedTexts ==
    {Quoted(b) : b \in UnpairedBodies}
        \cup {<<91>> \o Quoted(b) \o <<93>> : b \in UnpairedBodies}
        \cup {Str(<<"{", "\"", "a", "\"", ":">>) \o Quoted(b) \o <<125>> : b \in UnpairedBodies}

\* string literals that no unescaped closing quote ends properly
ControlBytes == 0..31
BadEscapeLetters == {0, 32, 39, 48, 65, 85, 97, 101, 118, 120, 127}
ControlTexts ==
    {Quoted(<<c>>) : c \in ControlBytes}
        \cup {Quoted(<<97, c, 98>>) : c \in ControlBytes}
        \cup {<<34, 97, c>> : c \in ControlBytes}
BadEscapeTexts ==
    {Quoted(<<92, e>>) : e \in BadEscapeLetters}
        \cup {Quoted(<<97, 92, e, 98>>) : e \in BadEscapeLetters}
        \cup {Quoted(<<92, 110, 92, e>>) : e \in BadEscapeLetters}
ShortUnicodeTexts ==
    {<<34, 92, 117>> \o Str(t) :
        t \in {<<>>, <<"1">>, <<"1", "2">>, <<"1", "2", "3">>, <<"\"">>, <<"1", "\"">>,
               <<"1", "2", "\"">>, <<"1", "2", "3", "\"">>, <<"1", "2", "\"", " ", "]">>,
               <<"1", "2", "G", "4", "\"">>, <<"G", "0", "4", "1", "\"">>,
               <<"0", "0", "4", " ", "\"">>, <<"1", "2", "3", "\"", "a", "b", "\"">>,
               <<"-", "0", "4", "1", "\"">>, <<"0", "x", "4", "1", "\"">>}}
UnterminatedTexts ==
    {<<34>> \o Str(t) :
        t \in {<<>>, <<"a">>, <<"a", "b", "c">>, <<"\\">>, <<"a", "\\">>, <<"a", "\\", "\"">>,
               <<"\\", "\\", "\\", "\"">>, <<"\\", "\\", "\\">>, <<"a", " ", "]">>,
               <<"\\", "n">>, <<"\\", "u", "0", "0", "4", "1">>}}
BadStringTexts ==
    ControlTexts \cup BadEscapeTexts \cup ShortUnicodeTexts \cup UnterminatedTexts

\* objects in which the key "a" occurs more than once, with the member the
\* last occurrence gives
Two == JInt(FALSE, <<2>>)
MemberA(text) == Str(<<"\"", "a", "\"", ":">>) \o text
DuplicateKeyObject(texts) ==
    <<123>> \o MemberA(texts[1]) \o Concat([i \in 1..(Len(texts) - 1) |->
                                              <<44>> \o MemberA(texts[i + 1])]) \o <<125>>
DuplicateValues ==
    {[text |-> Str(<<"1">>), value |-> One],
     [text |-> Str(<<"2">>), value |-> Two],
     [text |-> Str(<<"\"", "b", "\"">>), value |-> JString(KeyB)],
     [text |-> Str(<<"n", "u", "l", "l">>), value |-> Null],
     [text |-> Str(<<"[", "1", "]">>), value |-> JArray(<<One>>)],
     [text |-> Str(<<"[", "2", "]">>), value |-> JArray(<<Two>>)],
     [text |-> Str(<<"[", "]">>), value |-> JArray(<<>>)],
     [text |-> Str(<<"{", "}">>), value |-> JObject(EmptyObject)],
     [text |-> Str(<<"{", "\"", "a", "\"", ":", "2", "}">>),
      value |-> JObject([k \in {KeyA} |-> Two])]}
DuplicateKeyDocs ==
    {[text |-> DuplicateKeyObject(<<d.text, e.text>>),
      value |-> JObject([k \in {KeyA} |-> e.value])] : d, e \in DuplicateValues}
    \cup {[text |-> DuplicateKeyObject(<<d.text, e.text, f.text>>),
           value |-> JObject([k \in {KeyA} |-> f.value])] :
              d \in DuplicateValues, e, f \in {x \in DuplicateValues : x.value \in {Two, JArray(<<Two>>)}}}
    \cup {[text |-> <<91>> \o DuplicateKeyObject(<<d.text, e.text>>) \o <<93>>,
           value |-> JArray(<<JObject([k \in {KeyA} |-> e.value])>>)] :
              d, e \in {x \in DuplicateValues : x.value \in {One, JArray(<<Two>>)}}}
DuplicateKeyTexts == {d.text : d \in DuplicateKeyDocs}

\* well-formed documents with one more byte put before, between or behind
\* their tokens
Blanks == {32, 9, 10, 13}
OtherControls == {11, 12, 0, 8, 28, 31, 127, 160}
Padded(c) ==
    {<<c>> \o Str(<<"[", "]">>), <<91, c, 93>>, Str(<<"[", "]">>) \o <<c>>,
     Str(<<"[", "1">>) \o <<c>> \o Str(<<",", "2", "]">>),
     Str(<<"{", "\"", "a", "\"">>) \o <<c>> \o Str(<<":", "1", "}">>),
     Str(<<"{", "\"", "a", "\"", ":">>) \o <<c>> \o Str(<<"1", "}">>),
     <<c>> \o Str(<<"n", "u", "l", "l">>)}
PaddedTexts == UNION {Padded(c) : c \in Blanks \cup OtherControls}

\* objects closed behind a key that has no value
KeyWithoutValueTexts ==
    {Str(<<"{", "\"", "a", "\"", "}">>),
     Str(<<"{", "\"", "a", "\"", ":", "}">>),
     Str(<<"{", "\"", "a", "\"", ":", "{", "\"", "b", "\"", "}", "}">>),
     Str(<<"{", "\"", "a", "\"", ":", "{", "\"", "b", "\"", ":", "}", "}">>),
     Str(<<"{", "\"", "a", "\"", ":", "1", ",", "\"", "b", "\"", "}">>),
     Str(<<"[", "{", "\"", "a", "\"", "}", "]">>),
     Str(<<"{", "\"", "a", "\"", ":", "[", "{", "\"", "b", "\"", "}", "]", "}">>),
     Str(<<"{", "\"", "a", "\"", ":", "{", "\"", "b", "\"", "}", ",",
           "\"", "b", "\"", ":", "1", "}">>)}

\* numbers that are the last token of the source
LastNumberTexts ==
    {Str(<<"0">>), Str(<<"1">>), Str(<<"-", "5">>), Str(<<"1", "2">>), Str(<<"1", "e">>),
     Str(<<"1", "E">>), Str(<<"1", ".", "5">>), Str(<<"1", "e", "5">>),
     Str(<<"[", "1", "]", " ", "2">>), Str(<<"[", "1">>)}

\* objects with a literal that is no key where a key belongs, first in
\* the object and behind a comma
NotKeyLexemes ==
    {Str(<<"1">>), Str(<<"-", "5">>), Str(<<"1", ".", "5">>), true_str, false_str, null_str,
     Str(<<"\"", "\"">>)}
BadKeyTexts ==
    UNION {{Str(<<"{">>) \o k \o Str(<<":", "1", "}">>),
            Str(<<"{", "\"", "a", "\"", ":", "1", ",">>) \o k \o Str(<<":", "2", "}">>),
            Str(<<"[", "{">>) \o k \o Str(<<":", "[", "]", "}", "]">>)} : k \in NotKeyLexemes}

\* a closing token of the other kind behind a member, behind a comma and
\* behind a nested container
MismatchTexts ==
    {Str(<<"{", "\"", "a", "\"", ":", "1", "]">>),
     Str(<<"{", "\"", "a", "\"", ":", "1", ",", "]">>),
     Str(<<"{", "\"", "a", "\"", ":", "1", ",", "\"", "b", "\"", ":", "]">>),
     Str(<<"{", "\"", "a", "\"", ":", "[", "]", "]">>),
     Str(<<"[", "{", "\"", "a", "\"", ":", "1", "]", "]">>),
     Str(<<"[", "[", "1", "]", "}">>),
     Str(<<"[", "{", "}", "}">>),
     Str(<<"{", "\"", "a", "\"", ":", "[", "1", ",", "}", "}">>)}

\* texts that end inside a keyword, a number, an escape or a surrogate pair
TruncatedTexts ==
    {Str(<<"t">>), Str(<<"t", "r", "u">>), Str(<<"n", "u", "l">>), Str(<<"f", "a", "l", "s">>),
     Str(<<"[", "t", "r", "u">>), Str(<<"[", "1", ",", "n", "u">>),
     Str(<<"-">>), Str(<<"1", ".">>), Str(<<"1", "e", "+">>), Str(<<"[", "-">>),
     Str(<<"\"", "\\">>), Str(<<"\"", "\\", "u">>), Str(<<"\"", "\\", "u", "D", "8">>),
     Str(<<"\"", "\\", "u", "D", "8", "3", "D">>),
     Str(<<"\"", "\\", "u", "D", "8", "3", "D", "\\">>),
     Str(<<"\"", "\\", "u", "D", "8", "3", "D", "\\", "u">>),
     Str(<<"\"", "\\", "u", "D", "8", "3", "D", "\\", "u", "D", "E">>),
     Str(<<"\"", "\\", "u", "D", "8", "3", "D", "\\", "u", "D", "E", "0">>),
     Str(<<"\"", "\\", "u", "D", "8", "3", "D", "\\", "u", "D", "E", "0", "0">>),
     Str(<<"[", "\"", "\\", "u", "D", "8", "3", "D", "\\", "u", "D", "E">>)}

ParseSources ==
    TokenTexts \cup Examples \cup SurrogateTexts \cup UnpairedTexts \cup BadStringTexts
        \cup DuplicateKeyTexts \cup PaddedTexts \cup KeyWithoutValueTexts
        \cup LastNumberTexts \cup BadKeyTexts \cup MismatchTexts \cup TruncatedTexts

\* the trees of exactly n nodes over three scalars and two keys
TreeScalars == {One, JString(KeyA), JBool(TRUE)}
TreeKeys == <<KeyA, KeyB>>

RECURSIVE TreesOfSize(_), Forests(_, _)
\* the sequences of k trees with n nodes in all
Forests(k, n) ==
    IF k = 0 THEN (IF n = 0 THEN {<<>>} ELSE {})
    ELSE UNION {{<<t>> \o f : t \in TreesOfSize(m), f \in Forests(k - 1, n - m)} :
                   m \in 1..(n - k + 1)}
TreesOfSize(n) ==
    IF n < 1 THEN {}
    ELSE (IF n = 1 THEN TreeScalars ELSE {})
         \cup {JArray(f) : f \in UNION {Forests(k, n - 1) : k \in 0..(n - 1)}}
         \cup {JObject(EmptyObject) : z \in (IF n = 1 THEN {0} ELSE {})}
         \cup {JObject([k \in {TreeKeys[i]} |-> t]) :
                   i \in 1..2, t \in TreesOfSize(n - 1)}
         \cup {JObject([k \in {KeyA, KeyB} |-> IF k = KeyA THEN f[1] ELSE f[2]]) :
                   f \in Forests(2, n - 1)}

Trees == UNION {TreesOfSize(n) : n \in 1..MaxNodes}

\* the compact JSON text that denotes a tree of Trees (keys in TreeKeys order)
RECURSIVE TextOf(_)
TextOf(x) ==
    IF Is(x, "array")
    THEN <<91>> \o Concat([i \in DOMAIN x.v |->
                              (IF i > 1 THEN <<44>> ELSE <<>>) \o TextOf(x.v[i])])
              \o <<93>>
    ELSE IF Is(x, "object")
    THEN <<123>>
         \o (IF KeyA \in DOMAIN x.v
             THEN <<34>> \o KeyA \o <<34, 58>> \o TextOf(x.v[KeyA]) ELSE <<>>)
         \o (IF DOMAIN x.v = {KeyA, KeyB} THEN <<44>> ELSE <<>>)
         \o (IF KeyB \in DOMAIN x.v
             THEN <<34>> \o KeyB \o <<34, 58>> \o TextOf(x.v[KeyB]) ELSE <<>>)
         \o <<125>>
    ELSE IF Is(x, "int") THEN Bytes(x.v.mag)
    ELSE IF Is(x, "bool") THEN (IF x.v THEN true_str ELSE false_str)
    ELSE <<34>> \o x.v \o <<34>>

\* the value a client's json_value constructors give for a tree: a bool
\* goes through json_value(T value)
RECURSIVE Built(_)
Built(x) ==
    IF Is(x, "bool") THEN ValueOfBool(x.v)
    ELSE IF Is(x, "array") THEN JArray([i \in DOMAIN x.v |-> Built(x.v[i])])
    ELSE IF Is(x, "object") THEN JObject([k \in DOMAIN x.v |-> Built(x.v[k])])
    ELSE x

\* the values a client composes for a round trip: the trees, and values
\* outside them
RoundTrees ==
    {Built(t) : t \in Trees}
    \cup {JFloat(FALSE, <<1>>, 1), JFloat(FALSE, <<1, 5>>, 1), Null,
          JFloat(FALSE, <<1>>, 3), JArray(<<JFloat(FALSE, <<1>>, 3), One>>),
          JInt(TRUE, <<5>>), JString(<<>>), JString(<<34, 10, 1>>),
          JObject([k \in {<<>>} |-> One]),
          JArray(<<JFloat(FALSE, <<1>>, 1)>>),
          JArray(<<JFloat(FALSE, <<5>>, 0), JFloat(TRUE, <<1>>, 21)>>)}

\* the texts of a tree with one comma put before a closing bracket or brace
InsertAt(s, i, bs) == SubSeq(s, 1, i - 1) \o bs \o SubSeq(s, i, Len(s))
CommaTexts(s) ==
    {InsertAt(s, i, bs) : i \in {j \in DOMAIN s : s[j] \in {93, 125}},
                          bs \in {<<44>>, <<44, 32>>}}
ContainerTrees == {t \in Trees : IsComplex(t)}

\* the texts and values of the document life cycle
DocSources ==
    {<<>>, Str(<<"[", "1", "]">>), Str(<<"[", "1", ",", "]">>),
     Str(<<"\"", "a", "\"">>), Str(<<"{", "\"", "a", "\"", " ", "1", "}", " ", "x">>),
     Str(<<"1">>), Str(<<"{", "\"", "a", "\"", ":", "1", "}">>), Str(<<"\"", "a">>),
     Str(<<"[", "1", "]", " ", "2">>), Str(<<"x">>), Str(<<"n", "u", "l", "l">>)}
DocValues ==
    {Null, One, JArray(<<>>), JObject([k \in {KeyA} |-> One]), JInt(FALSE, <<0>>),
     JBool(FALSE), JString(<<>>), JObject(EmptyObject), JArray(<<Null>>)}

-----------------------------------------------------------------------------
(* Specifications.                                                         *)

\* a default-constructed json_document, before any call
InitFresh ==
    /\ root = Null
    /\ is_valid = TRUE
    /\ error_message = <<>>
    /\ pc = "idle"
    /\ source = <<>>
    /\ pos = 0
    /\ p_is_valid = TRUE
    /\ p_error_message = <<>>
    /\ p_root = Null
    /\ stack = <<>>
    /\ key_stack = <<>>
    /\ context = "array"
    /\ token_expected = "value"
    /\ dangling_comma = FALSE
    /\ last_token = Token("end_of_file", Null)
    /\ out = <<>>
    /\ asserts \in BOOLEAN
    /\ calls = 0
    /\ answer = NoAnswer
    /\ fmt = NoFormat

Init == InitFresh /\ given = Null

\* the document life cycle: any MaxCalls operations in any order
CallFromString == calls < MaxCalls /\ \E str \in DocSources : FromString(str)
CallSet == calls < MaxCalls /\ \E v \in DocValues : Set(v)
CallClear == calls < MaxCalls /\ Clear
CallToString == calls < MaxCalls /\ DocToString
CallEmpty == Empty

Next ==
    \/ CallFromString
    \/ ParseRoot
    \/ ParseComplexStep
    \/ ParseTrailing
    \/ FromStringReturn
    \/ CallSet
    \/ CallClear
    \/ CallToString
    \/ CallEmpty

Spec == Init /\ [][Next]_vars

\* one from_string call on a fresh document, for every text of ParseSources
CallParse == calls = 0 /\ \E str \in ParseSources : FromString(str)

NextParse ==
    \/ CallParse
    \/ ParseRoot
    \/ ParseComplexStep
    \/ ParseTrailing
    \/ FromStringReturn

SpecParse == Init /\ [][NextParse]_vars

\* The same with the progress of a call: from_string, parse and
\* parse_complex_ are straight-line code and one loop on one thread, so a
\* call that has a next step takes it.
ParseProgress ==
    /\ WF_vars(ParseRoot)
    /\ WF_vars(ParseComplexStep)
    /\ WF_vars(ParseTrailing)
    /\ WF_vars(FromStringReturn)
MaxLiveLen == 2
LiveSources == {str \in ParseSources : Len(str) <= MaxLiveLen}
CallParseLive == calls = 0 /\ \E str \in LiveSources : FromString(str)
NextParseLive ==
    \/ CallParseLive
    \/ ParseRoot
    \/ ParseComplexStep
    \/ ParseTrailing
    \/ FromStringReturn
SpecParseLive == Init /\ [][NextParseLive]_vars /\ ParseProgress

\* one from_string call on the text of a tree
InitText == InitFresh /\ given \in Trees

CallText == calls = 0 /\ FromString(TextOf(given))

NextText ==
    \/ CallText
    \/ ParseRoot
    \/ ParseComplexStep
    \/ ParseTrailing
    \/ FromStringReturn

SpecText == InitText /\ [][NextText]_vars

\* one from_string call on the text of a container, as it is or with a
\* trailing comma
InitComma == InitFresh /\ given \in ContainerTrees

CallComma ==
    calls = 0 /\ \E str \in {TextOf(given)} \cup CommaTexts(TextOf(given)) : FromString(str)

NextComma ==
    \/ CallComma
    \/ ParseRoot
    \/ ParseComplexStep
    \/ ParseTrailing
    \/ FromStringReturn

SpecComma == InitComma /\ [][NextComma]_vars

\* json_document(json_value root), to_string(), from_string of that text,
\* to_string() again
InitRound ==
    /\ given \in RoundTrees
    /\ root = given
    /\ is_valid = TRUE
    /\ error_message = <<>>
    /\ pc = "idle"
    /\ source = <<>>
    /\ pos = 0
    /\ p_is_valid = TRUE
    /\ p_error_message = <<>>
    /\ p_root = Null
    /\ stack = <<>>
    /\ key_stack = <<>>
    /\ context = "array"
    /\ token_expected = "value"
    /\ dangling_comma = FALSE
    /\ last_token = Token("end_of_file", Null)
    /\ out = <<>>
    /\ asserts \in BOOLEAN
    /\ calls = 0
    /\ answer = NoAnswer
    /\ fmt = NoFormat

CallRoundToString == calls = 0 /\ DocToString
CallRoundFromString == calls = 1 /\ FromString(out)
CallRoundToStringAgain == calls = 2 /\ DocToString

NextRound ==
    \/ CallRoundToString
    \/ CallRoundFromString
    \/ CallRoundToStringAgain
    \/ ParseRoot
    \/ ParseComplexStep
    \/ ParseTrailing
    \/ FromStringReturn

SpecRound == InitRound /\ [][NextRound]_vars

\* a json_lexer on a text, and a client that calls next_token() on it
\* MaxLexCalls times
LexSources == ParseSources

InitLex ==
    /\ source \in LexSources
    /\ pos = 0
    /\ last_token = Token("end_of_file", Null)
    /\ pc = "idle"
    /\ calls = 0
    /\ asserts \in BOOLEAN
    /\ answer = NoAnswer
    /\ fmt = NoFormat
    /\ root = Null
    /\ is_valid = TRUE
    /\ error_message = <<>>
    /\ p_is_valid = TRUE
    /\ p_error_message = <<>>
    /\ p_root = Null
    /\ stack = <<>>
    /\ key_stack = <<>>
    /\ context = "array"
    /\ token_expected = "value"
    /\ dangling_comma = FALSE
    /\ out = <<>>
    /\ given = Null

\* one call of next_token(): calls counts the calls that have returned
LexNextToken ==
    /\ pc = "idle"
    /\ calls < MaxLexCalls
    /\ LET r == next_token(source, pos, asserts)
       IN  /\ pos' = r.pos
           /\ IF r.abort
              THEN pc' = "aborted" /\ UNCHANGED <<last_token, calls>>
              ELSE last_token' = r.tok /\ calls' = calls + 1 /\ UNCHANGED pc
    /\ UNCHANGED <<doc_vars, source, p_is_valid, p_error_message, p_root, stack,
                   key_stack, context, token_expected, dangling_comma, out, asserts,
                   given, answer, fmt>>

NextLex == LexNextToken

SpecLex == InitLex /\ [][NextLex]_vars

\* the queries of a Value a client holds, for every alternative asked for
ValueSamples == RoundTrees \cup DocValues \cup {JBool(FALSE), JObject(EmptyObject)}
InitValue == InitFresh /\ given \in ValueSamples

QueryValue ==
    /\ \E t \in Types : answer' = Asked(given, t)
    /\ UNCHANGED <<doc_vars, pc, parser_vars, out, asserts, calls, given, fmt>>

NextValue == QueryValue
SpecValue == InitValue /\ [][NextValue]_vars

\* the quoted form of a byte string, handed to a lexer
EscapeBytes == {0, 8, 9, 10, 12, 13, 31, 32, 34, 47, 48, 92, 97, 117, 127, 128, 255}
ByteStrings ==
    {<<>>} \cup {<<c>> : c \in 0..255} \cup {<<c, d>> : c, d \in EscapeBytes}
        \cup {<<92, 117, 48, 48, 52, 49>>, <<92, 92, 34>>, <<34, 97, 34>>,
              <<1, 2, 3>>, <<240, 159, 152, 128>>, <<92, 110, 10>>}

InitEscape == InitFresh /\ given \in {JString(b) : b \in ByteStrings}

FormatString ==
    /\ pc = "idle"
    /\ out = <<>>
    /\ out' = format_string_(given.v)
    /\ source' = out'
    /\ pos' = 0
    /\ UNCHANGED <<doc_vars, pc, p_is_valid, p_error_message, p_root, stack, key_stack,
                   context, token_expected, dangling_comma, last_token, asserts, calls,
                   given, answer, fmt>>

LexFormatted == out /= <<>> /\ LexNextToken

NextEscape == FormatString \/ LexFormatted
SpecEscape == InitEscape /\ [][NextEscape]_vars

\* a document built on a container, rendered once by both renderers
InitRender == InitRound /\ IsComplex(given)

CallRender == calls = 0 /\ RenderBoth
NextRender == CallRender
SpecRender == InitRender /\ [][NextRender]_vars

\* one to_string call on a document that holds a container, taken one
\* iteration of the loop of format_complex_node_ at a time
CallFormat == calls = 0 /\ FormatBegin
NextFormat == CallFormat \/ FormatIterate \/ FormatReturn
SpecFormat == InitRender /\ [][NextFormat]_vars

\* a document constructed from a list of up to MaxList Values
MaxList == 3
ListElements ==
    {Null, One, Two, JFloat(FALSE, <<1, 5>>, 1), JString(KeyA), JArray(<<>>),
     JArray(<<One>>), JObject(EmptyObject)}
RECURSIVE ListsOfLen(_)
ListsOfLen(n) ==
    IF n = 0 THEN {<<>>} ELSE {Append(l, x) : l \in ListsOfLen(n - 1), x \in ListElements}
Lists == UNION {ListsOfLen(n) : n \in 0..MaxList}
ConstructFromList == calls = 0 /\ \E list \in Lists : DocumentOfList(list)
NextList == ConstructFromList
SpecList == Init /\ [][NextList]_vars

-----------------------------------------------------------------------------
(* The claims of the specification.                                        *)

\* the one from_string call of SpecParse, SpecText and SpecComma has returned
Returned == pc = "idle" /\ calls = 1

\* the process was ended by a failed assert, or ran into undefined behaviour
Crashed == pc \in {"aborted", "undefined"}

\* C1: from_string on a well-formed JSON text succeeds (is_valid() true) and
\* root() is the tree the text denotes: array elements in source order, every
\* object member under the key before its colon
C1_WellFormedTextParses ==
    /\ ~Crashed
    /\ Returned => is_valid /\ root = given

\* C2: a text in which a comma stands right before (whitespace aside) the
\* bracket or brace that closes its container fails to parse, at any depth;
\* the same text without that comma parses successfully
C2_TrailingCommaRejected ==
    /\ ~Crashed
    /\ Returned /\ source \in CommaTexts(TextOf(given)) => ~is_valid
    /\ Returned /\ source = TextOf(given) => is_valid

C2_Witness ==
    /\ Returned
    /\ ~is_valid
    /\ source = Str(<<"[", "[", "1", ",", "]", "]">>)
    /\ given = JArray(<<JArray(<<One>>)>>)

\* parse_complex_ has just been handed a value token where the colon of an
\* object member was expected
MissingColon ==
    /\ pc = "trailing"
    /\ stack /= <<>>
    /\ token_expected = "colon"
    /\ is_value_token(last_token.type)

\* among the parser's diagnostics the word colon is in this one alone
NamesColon(e) == e.text = "Unexpected colon in array or object context"

C4_TrailingDataRejected ==
    [][/\ (pc = "trailing" /\ p_is_valid /\ skip_whitespaces_(source, pos) < Len(source))
            => (pc' = "return" /\ ~p_is_valid')
       /\ (pc = "return" /\ ~p_is_valid) => (pc' = "idle" /\ ~is_valid')]_vars

\* the JSON whitespace bytes
AllWhitespace(s) == \A i \in DOMAIN s : s[i] \in {32, 9, 10, 13}

\* C5: from_string on an empty or all-whitespace text fails: is_valid() is
\* false and error_message() reports an empty document
C5_EmptyDocument ==
    calls = 1 /\ AllWhitespace(source) =>
        /\ ~Crashed
        /\ pc = "idle" =>
              /\ ~is_valid
              /\ error_message = <<Err("Empty JSON document")>>

C5_Witness ==
    /\ Returned
    /\ source = <<32, 9, 10, 13>>
    /\ ~is_valid
    /\ error_message = <<Err("Empty JSON document")>>

\* documents of one scalar literal and the scalar each denotes
ScalarDocs ==
    {[text |-> Str(<<"\"", "h", "e", "l", "l", "o", "\"">>),
      value |-> JString(Str(<<"h", "e", "l", "l", "o">>))],
     [text |-> Str(<<"t", "r", "u", "e">>), value |-> JBool(TRUE)],
     [text |-> Str(<<"f", "a", "l", "s", "e">>), value |-> JBool(FALSE)],
     [text |-> Str(<<"n", "u", "l", "l">>), value |-> Null],
     [text |-> Str(<<"4", "2">>), value |-> JInt(FALSE, <<4, 2>>)],
     [text |-> Str(<<"-", "5">>), value |-> JInt(TRUE, <<5>>)],
     [text |-> Str(<<"1", ".", "5">>), value |-> JFloat(FALSE, <<1, 5>>, 1)],
     [text |-> Str(<<" ", "1", ".", "5", " ">>), value |-> JFloat(FALSE, <<1, 5>>, 1)]}

\* C6: a document whose only token is a scalar literal is valid, root() is
\* exactly that scalar, and no container is created
C6_ScalarDocument ==
    \A d \in ScalarDocs :
        source = d.text =>
            /\ ~Crashed
            /\ stack = <<>>
            /\ Returned => is_valid /\ root = d.value

\* C7: in every state of a document error_message() is empty if and only if
\* is_valid() is true
C7_MessageEmptyIffValid ==
    /\ is_valid <=> error_message = <<>>
    /\ \A i \in DOMAIN error_message : error_message[i].text /= ""

C7_Witness ==
    /\ pc = "idle"
    /\ ~is_valid
    /\ error_message /= <<>>
    /\ root = One

\* C8: between calls is_valid() and error_message() are the outcome of the
\* most recent from_string call (valid and empty if there was none), every
\* from_string call starts with no diagnostics, and set(), clear() and
\* to_string() change neither
C8_LastParseOutcome ==
    /\ [](pc = "idle" => is_valid = p_is_valid /\ error_message = p_error_message)
    /\ [](pc = "parse" => p_is_valid /\ p_error_message = <<>>)
    /\ [][pc = "idle" /\ pc' = "idle" => UNCHANGED <<is_valid, error_message>>]_vars

C8_Witness ==
    /\ pc = "return"
    /\ ~is_valid
    /\ error_message /= <<>>
    /\ p_is_valid

\* C9: for every text from_string returns normally, with is_valid() true or
\* with is_valid() false and a non-empty error_message(); nothing escapes
\* the call as an abort or a wrong access
C9_ReturnsNormally ==
    /\ ~Crashed
    /\ Returned => is_valid \/ error_message /= <<>>

\* C10: for a document built from a value v, from_string(to_string())
\* succeeds and leaves a root equal to v
C10_RoundTrip ==
    /\ ~Crashed
    /\ pc = "idle" /\ calls = 2 => is_valid /\ root = given

\* C11: to_string() of the document that from_string(to_string()) leaves
\* equals the first to_string() text byte for byte
C11_ReserializationIdempotent ==
    pc = "idle" /\ calls = 3 => out = source

\* the kinds of the values of a tree, place by place
RECURSIVE KindOf(_)
KindOf(x) ==
    IF Is(x, "array") THEN JArray([i \in DOMAIN x.v |-> KindOf(x.v[i])])
    ELSE IF Is(x, "object") THEN JObject([k \in DOMAIN x.v |-> KindOf(x.v[k])])
    ELSE x.t

\* C12: after from_string(to_string()) every Int of the tree is an Int again
\* and every Float, whole-valued ones included, a Float again
C12_NumberKindPreserved ==
    pc = "idle" /\ calls = 2 /\ is_valid => KindOf(root) = KindOf(given)

\* C13: once next_token() has returned an end-of-input token, every later
\* call returns end-of-input again and leaves the cursor where it was
C13_EndOfInputIdempotent ==
    [][calls > 0 /\ last_token.type = "end_of_file"
          => last_token'.type = "end_of_file" /\ pos' = pos /\ pc' = "idle"]_vars

C13_Witness ==
    /\ calls = MaxLexCalls
    /\ last_token.type = "end_of_file"
    /\ source = Str(<<"[", "1", " ", "]">>)
    /\ pos = Len(source)

\* C14: every call of next_token() that returns a token other than
\* end-of-input leaves the cursor strictly greater than it was
C14_CursorAdvances ==
    [][calls' = calls + 1 /\ last_token'.type /= "end_of_file" => pos' > pos]_vars

\* numbers whose integer part is 0 followed by another digit
LeadingZeroTexts ==
    {Str(<<"0", "1">>), Str(<<"-", "0", "1">>), Str(<<"0", "0">>),
     Str(<<"0", "1", ".", "5">>), Str(<<"[", "0", "1", "]">>)}

\* documents of a lone zero and the value each denotes
ZeroDocs ==
    {[text |-> Str(<<"0">>), value |-> JInt(FALSE, <<0>>)],
     [text |-> Str(<<"-", "0">>), value |-> JInt(FALSE, <<0>>)],
     [text |-> Str(<<"0", ".", "5">>), value |-> JFloat(FALSE, <<5>>, 0)]}

\* C15: a number whose integer part is 0 followed by another digit fails to
\* parse, while 0, -0 and 0.5 as complete documents parse to Int 0, Int 0
\* and Float 0.5
C15_LeadingZeros ==
    /\ source \in LeadingZeroTexts => ~Crashed /\ (Returned => ~is_valid)
    /\ \A d \in ZeroDocs :
          source = d.text => ~Crashed /\ (Returned => is_valid /\ root = d.value)

\* number literals, each followed by the end of the text or by another
\* byte, and the token type the text of the literal asks for
NumberTexts ==
    {[text |-> Str(<<"4", "2">>), type |-> "int_value"],
     [text |-> Str(<<"4", "2", " ">>), type |-> "int_value"],
     [text |-> Str(<<"-", "5", ",">>), type |-> "int_value"],
     [text |-> Str(<<"0">>), type |-> "int_value"],
     [text |-> Str(<<"1", ".", "5">>), type |-> "double_value"],
     [text |-> Str(<<"0", ".", "5", " ">>), type |-> "double_value"],
     [text |-> Str(<<"1", "e", "5">>), type |-> "double_value"],
     [text |-> Str(<<"1", ".", "5", "e", "2", " ">>), type |-> "double_value"],
     [text |-> Str(<<"1", "E", "+", "5", "]">>), type |-> "double_value"],
     [text |-> Str(<<"2", "e", "-", "1", " ">>), type |-> "double_value"],
     [text |-> Str(<<"1", ".">>), type |-> "invalid"],
     [text |-> Str(<<"1", ".", " ">>), type |-> "invalid"],
     [text |-> Str(<<"1", ".", "e", "5">>), type |-> "invalid"],
     [text |-> Str(<<"1", "e">>), type |-> "invalid"],
     [text |-> Str(<<"1", "e", "+">>), type |-> "invalid"],
     [text |-> Str(<<"1", "e", " ">>), type |-> "invalid"],
     [text |-> Str(<<"1", ".", "5", "E", "x">>), type |-> "invalid"]}

\* the kind of value a token of a type holds
HeldKind(type) ==
    IF type = "int_value" THEN "int" ELSE IF type = "double_value" THEN "double" ELSE "null"

\* C16: a number literal without fraction and exponent yields an int token
\* holding an Int, one with a fraction or an exponent a float token holding
\* a Float, and a '.' or exponent without a digit behind it an invalid token
C16_NumberClassification ==
    \A d \in NumberTexts :
        source = d.text =>
            /\ ~Crashed
            /\ calls = 1 => last_token.type = d.type /\ last_token.value.t = HeldKind(d.type)

\* integer literals, each followed by the end of the text or by a blank:
\* those of the signed 64-bit range with their values, and those outside it
IntTexts ==
    {[text |-> Str(<<"4", "2">>), fits |-> TRUE, value |-> JInt(FALSE, <<4, 2>>)],
     [text |-> Str(<<"4", "2", " ">>), fits |-> TRUE, value |-> JInt(FALSE, <<4, 2>>)],
     [text |-> Str(<<"9", "2", "2", "3", "3", "7", "2", "0", "3", "6", "8", "5", "4", "7", "7", "5", "8", "0", "7">>), fits |-> TRUE,
      value |-> JInt(FALSE, <<9, 2, 2, 3, 3, 7, 2, 0, 3, 6, 8, 5, 4, 7, 7, 5, 8, 0, 7>>)],
     [text |-> Str(<<"9", "2", "2", "3", "3", "7", "2", "0", "3", "6", "8", "5", "4", "7", "7", "5", "8", "0", "7", " ">>), fits |-> TRUE,
      value |-> JInt(FALSE, <<9, 2, 2, 3, 3, 7, 2, 0, 3, 6, 8, 5, 4, 7, 7, 5, 8, 0, 7>>)],
     [text |-> Str(<<"-", "9", "2", "2", "3", "3", "7", "2", "0", "3", "6", "8", "5", "4", "7", "7", "5", "8", "0", "8">>), fits |-> TRUE,
      value |-> JInt(TRUE, <<9, 2, 2, 3, 3, 7, 2, 0, 3, 6, 8, 5, 4, 7, 7, 5, 8, 0, 8>>)],
     [text |-> Str(<<"-", "9", "2", "2", "3", "3", "7", "2", "0", "3", "6", "8", "5", "4", "7", "7", "5", "8", "0", "8", " ">>), fits |-> TRUE,
      value |-> JInt(TRUE, <<9, 2, 2, 3, 3, 7, 2, 0, 3, 6, 8, 5, 4, 7, 7, 5, 8, 0, 8>>)],
     [text |-> Str(<<"9", "2", "2", "3", "3", "7", "2", "0", "3", "6", "8", "5", "4", "7", "7", "5", "8", "0", "8">>), fits |-> FALSE, value |-> Null],
     [text |-> Str(<<"9", "2", "2", "3", "3", "7", "2", "0", "3", "6", "8", "5", "4", "7", "7", "5", "8", "0", "8", " ">>), fits |-> FALSE, value |-> Null],
     [text |-> Str(<<"-", "9", "2", "2", "3", "3", "7", "2", "0", "3", "6", "8", "5", "4", "7", "7", "5", "8", "0", "9">>), fits |-> FALSE, value |-> Null],
     [text |-> Str(<<"-", "9", "2", "2", "3", "3", "7", "2", "0", "3", "6", "8", "5", "4", "7", "7", "5", "8", "0", "9", " ">>), fits |-> FALSE, value |-> Null],
     [text |-> Str(<<"1", "2", "3", "4", "5", "6", "7", "8", "9", "0", "1", "2", "3", "4", "5", "6", "7", "8", "9", "0", "1", "2", "3", "4", "5", "6", "7", "8", "9", "0", " ">>), fits |-> FALSE, value |-> Null],
     [text |-> Str(<<"-", "1", "2", "3", "4", "5", "6", "7", "8", "9", "0", "1", "2", "3", "4", "5", "6", "7", "8", "9", "0", "1", "2", "3", "4", "5", "6", "7", "8", "9", "0">>), fits |-> FALSE, value |-> Null]}

\* the diagnostics of the number grammar
GrammarDiagnostics ==
    {"Invalid number format", "Leading zeros are not allowed",
     "Invalid number format after decimal point", "Invalid exponent format"}

\* C17: an integer literal outside the signed 64-bit range yields an invalid
\* token whose diagnostic is the overflow diagnostic, none of the grammar
\* diagnostics; a literal inside the range yields an int token of its value
C17_IntegerRange ==
    \A d \in IntTexts :
        source = d.text =>
            /\ ~Crashed
            /\ calls = 1 =>
                  IF d.fits THEN last_token = Token("int_value", d.value)
                  ELSE /\ last_token.type = "invalid"
                       /\ ~last_token.is_valid
                       /\ last_token.error_str = Err("Integer overflow/underflow")
                       /\ last_token.error_str.text \notin GrammarDiagnostics

\* the Unicode scalar value of a surrogate pair and its UTF-8 encoding
ScalarOf(h, l) == 65536 + (h - 55296) * 1024 + (l - 56320)
Utf8Four(cp) ==
    <<240 + (cp \div 262144), 128 + ((cp \div 4096) % 64), 128 + ((cp \div 64) % 64),
      128 + (cp % 64)>>

\* C18: a high surrogate escape followed at once by a low surrogate escape
\* decodes to 0x10000 + ((h - 0xD800) << 10) + (l - 0xDC00), a code point
\* of 0x10000..0x10FFFF, appended as exactly four UTF-8 bytes
C18_SurrogatePair ==
    /\ Len(source) = 14 /\ calls >= 1 =>
      \A h \in HighSamples, l \in LowSamples, upper \in BOOLEAN :
          source = PairText(h, l, upper) /\ calls >= 1 =>
              /\ ScalarOf(h, l) >= 65536 /\ ScalarOf(h, l) <= 1114111
              /\ pc = "idle"
              /\ calls = 1 =>
                    /\ last_token = Token("string_value", JString(Utf8Four(ScalarOf(h, l))))
                    /\ pos = Len(source)
    /\ source = PairText(55357, 56832, TRUE) /\ calls = 1 =>
          last_token.value = JString(<<240, 159, 152, 128>>)

C18_Witness ==
    /\ source = PairText(56319, 57343, FALSE)
    /\ calls = 1
    /\ last_token.value = JString(<<244, 143, 191, 191>>)

\* C19: a string literal with a low surrogate escape that no high surrogate
\* precedes, or with a high surrogate escape that the closing quote, other
\* text or an escape outside DC00..DFFF follows, yields an invalid token and
\* from_string fails
C19_UnpairedSurrogate ==
    source \in UnpairedTexts =>
        /\ ~Crashed
        /\ Returned => ~is_valid /\ last_token.type = "invalid" /\ error_message /= <<>>

C19_Witness ==
    /\ Returned
    /\ source = Quoted(UEscape(55296, TRUE) \o UEscape(65, TRUE))
    /\ ~is_valid
    /\ last_token = Invalid(Err("Invalid low surrogate in \\u escape sequence"))

\* the number of backslashes that end at position p of s
RECURSIVE BackslashRun(_, _)
BackslashRun(s, p) == IF p >= 1 /\ s[p] = 92 THEN 1 + BackslashRun(s, p - 1) ELSE 0

\* C20: next_token returns a string token only with the cursor behind an
\* unescaped closing quote; a raw byte below 0x20 in the literal, an escape
\* letter outside " \ / b f n r t u, a \u with fewer than four hex digits
\* and a source that ends before the closing quote (also directly behind a
\* backslash) each give an invalid token with a diagnostic, the call that
\* reads the literal being the first on the source
C20_StringNeedsClosingQuote ==
    /\ ~Crashed /\ calls >= 1 /\ last_token.type = "string_value" =>
          /\ pos >= 2
          /\ source[pos] = 34
          /\ BackslashRun(source, pos - 1) % 2 = 0
    /\ source \in BadStringTexts =>
          /\ ~(Crashed /\ calls = 0)
          /\ calls = 1 =>
                /\ last_token.type = "invalid"
                /\ ~last_token.is_valid
                /\ last_token.error_str.text /= ""

C20_Witness ==
    /\ calls = 1
    /\ source = Str(<<"\"", "a", "\\", "\"">>)
    /\ last_token = Invalid(Err("Unterminated string"))

\* C21: exactly one of the seven alternatives answers is<T>() with true;
\* as<T>() gives the Value's content for that alternative and throws for
\* every other; try_as<T>() gives the content or the null pointer and
\* throws for none; an Int answers no Float query and a Float no Int query
C21_OneAlternative ==
    /\ Cardinality({t \in Types : Is(given, t)}) = 1
    /\ answer.op = "value" =>
          /\ answer.is <=> answer.type = given.t
          /\ answer.is =>
                /\ answer.as = [thrown |-> "", ref |-> given]
                /\ answer.try_as = [null |-> FALSE, ref |-> given]
          /\ ~answer.is => answer.as.thrown /= "" /\ answer.try_as.null
          /\ given.t = "int" /\ answer.type = "double" => ~answer.is
          /\ given.t = "double" /\ answer.type = "int" => ~answer.is

C21_Witness ==
    /\ given = One
    /\ answer.op = "value" /\ answer.type = "double"
    /\ ~answer.is /\ answer.as.thrown = "std::bad_variant_access" /\ answer.try_as.null

\* C22: empty() answers true exactly for a Null root, an array of length 0
\* and an object without members; clear() leaves a Null root, for which
\* empty() is true; set(v) leaves the root v
C22_EmptySetClear ==
    [][/\ Empty =>
             answer'.result =
                 (root = Null \/ root = JArray(<<>>) \/ root = JObject(EmptyObject))
       /\ Clear => root' = Null /\ empty(root')
       /\ \A v \in DocValues : Set(v) => root' = v]_vars

C22_Witness ==
    /\ root = JInt(FALSE, <<0>>)
    /\ answer = [op |-> "empty", result |-> FALSE]
    /\ calls = MaxCalls

\* a tree with an array or object that has no children
RECURSIVE HasEmptyContainer(_)
HasEmptyContainer(x) ==
    IF Is(x, "array")
    THEN x.v = <<>> \/ \E i \in DOMAIN x.v : HasEmptyContainer(x.v[i])
    ELSE IF Is(x, "object")
    THEN DOMAIN x.v = {} \/ \E k \in DOMAIN x.v : HasEmptyContainer(x.v[k])
    ELSE FALSE

\* C23: for a container root the stack-based renderer writes the text the
\* recursive renderer writes, empty containers as [] and {}
C23_SameAsRecursive ==
    answer.op = "format_value_" =>
        /\ out = answer.result
        /\ root = JArray(<<>>) => out = <<91, 93>>
        /\ root = JObject(EmptyObject) => out = <<123, 125>>

\* C24: the quoted form format_string_ writes for a byte string is lexed as
\* one string token whose value is that byte string; the quoted form has
\* the seven two-character escapes, \u00XX in small hex digits for every
\* other byte below 0x20, and every other byte as it is
C24_EscapeThenLex ==
    /\ ~Crashed
    /\ out /= <<>> =>
          /\ Len(given.v) = 1 =>
                LET c == given.v[1]
                IN  out = <<34>>
                          \o (IF c \in {34, 92} THEN <<92, c>>
                              ELSE IF c = 8 THEN Str(<<"\\", "b">>)
                              ELSE IF c = 12 THEN Str(<<"\\", "f">>)
                              ELSE IF c = 10 THEN Str(<<"\\", "n">>)
                              ELSE IF c = 13 THEN Str(<<"\\", "r">>)
                              ELSE IF c = 9 THEN Str(<<"\\", "t">>)
                              ELSE IF c < 32 THEN UEscape(c, FALSE)
                              ELSE <<c>>)
                          \o <<34>>
          /\ calls = 1 =>
                last_token = Token("string_value", given) /\ pos = Len(source)
          /\ calls > 1 => last_token.type = "end_of_file"

C24_Witness ==
    /\ given = JString(<<92, 31>>)
    /\ out = Str(<<"\"", "\\", "\\", "\\", "u", "0", "0", "1", "f", "\"">>)
    /\ calls = 1
    /\ last_token.value = given

\* C25: when a key occurs more than once in an object the parse succeeds
\* and the key maps to the value of its last occurrence, a scalar or a
\* nested array or object
C25_LastWriteWins ==
    \A d \in DuplicateKeyDocs :
        source = d.text =>
            /\ ~Crashed
            /\ Returned => is_valid /\ root = d.value

\* the containers opened and not yet closed by the tokens of s before upto
OpenTokens == {"left_brace", "left_bracket"}
CloseTokens == {"right_brace", "right_bracket"}
RECURSIVE OpenDepth(_, _, _)
OpenDepth(s, p, upto) ==
    IF p >= upto THEN 0
    ELSE LET r == next_token(s, p, FALSE)
         IN  IF r.pos <= p THEN 0
             ELSE (IF r.tok.type \in OpenTokens THEN 1
                   ELSE IF r.tok.type \in CloseTokens THEN 0 - 1 ELSE 0)
                  + OpenDepth(s, r.pos, upto)

\* C26: at every step of parse_complex_ the container stack has one frame
\* for each container opened and not yet closed by the tokens consumed; an
\* accepted { or [ adds one frame, an accepted } or ] removes one, any
\* other accepted token none; parse_complex_ returns successfully exactly
\* when a closing token empties the stack
C26_StackIsNesting ==
    /\ [](pc = "complex" => Len(stack) >= 1 /\ Len(stack) = OpenDepth(source, 0, pos))
    /\ [][pc = "complex" /\ pc' \in {"complex", "trailing"} =>
            /\ pc' = "complex" =>
                  Len(stack') = Len(stack)
                      + (IF last_token'.type \in OpenTokens THEN 1
                         ELSE IF last_token'.type \in CloseTokens THEN 0 - 1 ELSE 0)
            /\ p_is_valid' =>
                  (pc' = "trailing" <=>
                      last_token'.type \in CloseTokens /\ Len(stack) = 1 /\ stack' = <<>>)
            /\ ~p_is_valid' => pc' = "trailing" /\ stack' = stack]_vars

C26_Witness ==
    /\ pc = "trailing" /\ p_is_valid /\ stack = <<>>
    /\ source = Str(<<"[", "{", "}", "]">>)
    /\ pos = Len(source)

\* C27: a blank, tab, line feed or carriage return before a token is
\* skipped; any other byte that starts no token, such as a vertical tab or
\* a form feed between tokens, gives the invalid token "Unexpected
\* character" and the parse fails
C27_WhitespaceIsFourBytes ==
    /\ \A c \in Blanks : source \in Padded(c) => ~Crashed /\ (Returned => is_valid)
    /\ \A c \in OtherControls :
          source \in Padded(c) =>
              /\ ~Crashed
              /\ Returned =>
                    /\ ~is_valid
                    /\ last_token = Invalid(ErrCh("Unexpected character: ", c))

\* C28: a } behind a key that has no value is rejected, so from_string
\* fails on an object closed there; and whenever parse_complex_ returns
\* successfully no key is left on the key stack
C28_ObjectClosesAfterMember ==
    /\ source \in KeyWithoutValueTexts => ~Crashed /\ (Returned => ~is_valid)
    /\ pc = "trailing" /\ p_is_valid => key_stack = <<>>

\* C29: the assert of peek_, pos_ < source_.size(), holds on every call: no
\* next_token call ends in the failed assert, also not on a number that is
\* the last token of the source
C29_PeekInsideSource ==
    /\ asserts => pc /= "aborted"
    /\ source \in LastNumberTexts /\ pos = Len(source) /\ calls >= 1 =>
          last_token.type \in {"int_value", "double_value", "invalid", "end_of_file"}

\* C30: a from_string call that fails leaves root as it was before the
\* call: no step of the call but the return of a successful parse changes
\* root, and the failing return changes is_valid and error_message alone
C30_FailedParseKeepsRoot ==
    [][/\ (pc /= "idle" \/ pc' /= "idle") /\ ~(pc = "return" /\ p_is_valid) => root' = root
       /\ pc = "return" /\ ~p_is_valid =>
             /\ ~is_valid' /\ error_message' = p_error_message /\ error_message' /= <<>>
             /\ out' = out]_vars

C30_Witness ==
    /\ pc = "idle" /\ calls = 2
    /\ root = JObject([k \in {KeyA} |-> One])
    /\ ~is_valid
    /\ source = Str(<<"[", "1", ",", "]">>)

\* What one iteration of the loop of parse_complex_ did with its token.
Stepped == pc = "complex" /\ pc' /= "aborted"
Rejected ==
    /\ pc' = "trailing" /\ ~p_is_valid' /\ p_root' = Null
    /\ stack' = stack
    /\ Len(p_error_message') = Len(p_error_message) + 1
Accepted == pc' = "complex" /\ p_is_valid' = p_is_valid /\ p_error_message' = p_error_message
ExpectAfterComma == IF context = "array" THEN "value" ELSE "key"

\* C31: inside a container `{`, `[` and a scalar that is not a key are
\* accepted only while a value is expected, `,` only while a comma is
\* expected (a value is expected next in an array, a key in an object), `:`
\* only while a colon is expected in an object (a value is expected next);
\* end of input and an invalid token are rejected in every state; a
\* rejected token fails the parse there and leaves every frame as it was
C31_TransitionTable ==
    [][Stepped =>
        LET type == last_token'.type IN
        /\ type = "left_brace" =>
              IF token_expected = "value"
              THEN /\ Accepted /\ stack' = Append(stack, JObject(EmptyObject))
                   /\ context' = "object" /\ token_expected' = "key"
              ELSE Rejected
        /\ type = "left_bracket" =>
              IF token_expected = "value"
              THEN /\ Accepted /\ stack' = Append(stack, JArray(<<>>))
                   /\ context' = "array" /\ token_expected' = "value"
              ELSE Rejected
        /\ is_value_token(type) /\ token_expected /= "key" =>
              IF token_expected = "value"
              THEN /\ Accepted /\ Pop(stack') = Pop(stack)
                   /\ IF context = "array"
                      THEN Top(stack') = JArray(Append(Top(stack).v, last_token'.value))
                      ELSE /\ Is(Top(stack'), "object") /\ key_stack /= <<>>
                           /\ Top(stack').v[Top(key_stack)] = last_token'.value
                   /\ token_expected' = "comma" /\ context' = context
              ELSE Rejected
        /\ type = "comma" =>
              IF token_expected = "comma"
              THEN /\ Accepted /\ stack' = stack
                   /\ token_expected' = ExpectAfterComma /\ context' = context
              ELSE Rejected
        /\ type = "colon" =>
              IF token_expected = "colon" /\ context = "object"
              THEN /\ Accepted /\ stack' = stack
                   /\ token_expected' = "value" /\ context' = context
              ELSE Rejected
        /\ type \in {"end_of_file", "invalid"} => Rejected
        /\ token_expected \in {"key", "colon"} => context = "object"]_vars

\* `[1:` : the colon is rejected while a comma is expected, the array as it was
C31_Witness ==
    /\ pc = "trailing" /\ ~p_is_valid
    /\ last_token.type = "colon"
    /\ token_expected = "comma" /\ context = "array"
    /\ stack = <<JArray(<<One>>)>>
    /\ source = Str(<<"[", "1", ":">>)

\* how many keys the open frames still need: one for every object frame
\* that has a child open above it, and one for the top frame if its member
\* has its key and not yet its value
OpenObjectsBelowTop == Cardinality({i \in 1..(Len(stack) - 1) : Is(stack[i], "object")})
PendingKeys ==
    OpenObjectsBelowTop
    + (IF context = "object" /\ token_expected \in {"colon", "value"} THEN 1 ELSE 0)

\* C32: top() and pop() of key_stack are never called while it is empty: at
\* every loop head of parse_complex_ the key stack holds at least the keys
\* that the open frames will take from it, whatever the input
C32_KeyStackNeverEmpty ==
    /\ pc /= "undefined"
    /\ pc = "complex" => Len(key_stack) >= PendingKeys

\* `{"a":{"b"}` : the inner object was attached under a key with a key to spare
C32_Witness ==
    /\ pc = "complex"
    /\ source = Str(<<"{", "\"", "a", "\"", ":", "{", "\"", "b", "\"", "}", "}">>)
    /\ last_token.type = "right_brace"
    /\ Len(stack) = 1 /\ DOMAIN Top(stack).v = {KeyB}
    /\ key_stack = <<KeyA>>

\* C33: a literal handed to parse_complex_ while a key is expected is taken
\* as the pending key, with a colon expected next, exactly when it is a
\* string that is not empty; a number, a boolean, null and the empty
\* string fail the parse there, and every text with one of them in the
\* place of a key is invalid
C33_KeyIsNonEmptyString ==
    [][/\ Stepped /\ token_expected = "key" /\ is_value_token(last_token'.type) =>
             LET value == last_token'.value IN
             IF Is(value, "string") /\ value.v /= <<>>
             THEN /\ Accepted /\ stack' = stack
                  /\ key_stack' = Append(key_stack, value.v)
                  /\ token_expected' = "colon"
             ELSE /\ Rejected /\ token_expected' = "key"
                  /\ p_error_message'[Len(p_error_message')] =
                        IF Is(value, "string")
                        THEN Err("Empty key in object context")
                        ELSE Err("Expected string key in object context")
       /\ pc = "return" /\ source \in BadKeyTexts => ~p_is_valid /\ p_root = Null
      ]_vars

\* `{"a":1,"":2}` : the empty string behind the comma has failed the parse
C33_Witness ==
    /\ pc = "return" /\ ~p_is_valid
    /\ source = Str(<<"{", "\"", "a", "\"", ":", "1", ",", "\"", "\"", ":", "2", "}">>)
    /\ stack = <<JObject([k \in {KeyA} |-> One])>>
    /\ token_expected = "key"
    /\ p_error_message[1] = Err("Empty key in object context")

\* C34: at every loop head of parse_complex_ context is the kind of the
\* frame on top of the stack, and a `]` handed to it while that frame is
\* an object, or a `}` while it is an array, fails the parse there in
\* every expected state, every frame left as it was
C34_MismatchedCloser ==
    /\ [](pc = "complex" => stack /= <<>> /\ context = ContextOf(Top(stack)))
    /\ [][Stepped =>
            /\ last_token'.type = "right_bracket" /\ Is(Top(stack), "object") => Rejected
            /\ last_token'.type = "right_brace" /\ Is(Top(stack), "array") => Rejected]_vars

\* `{"a":]` : the bracket is rejected while the value of a member is expected
C34_Witness ==
    /\ pc = "trailing" /\ ~p_is_valid
    /\ last_token.type = "right_bracket"
    /\ stack = <<JObject(EmptyObject)>> /\ context = "object"
    /\ token_expected = "value" /\ key_stack = <<KeyA>>

\* C35: at every loop head of parse_complex_ dangling_comma is set only if
\* the token consumed last is a comma
C35_DanglingCommaIsLastToken ==
    pc = "complex" /\ dangling_comma => last_token.type = "comma"

\* C36: every parse that is started returns to its caller
C36_ParseReturns == (pc = "parse") ~> (pc = "idle")

\* C37: the cursor is never outside 0..source length, and no call of
\* next_token() that returns leaves it smaller than it was
C37_CursorInSource ==
    /\ [](pos >= 0 /\ pos <= Len(source))
    /\ [][calls' = calls + 1 => pos' >= pos]_vars

\* `"\uD83D\uDE` : the call has returned the invalid token with the cursor
\* behind the high surrogate, inside the source
C37_Witness ==
    /\ source = Str(<<"\"", "\\", "u", "D", "8", "3", "D", "\\", "u", "D", "E">>)
    /\ calls >= 1
    /\ last_token.type = "invalid"
    /\ last_token.error_str = Err("Expected low surrogate after high surrogate")
    /\ pos = 7

\* the parser has logged its first error and parse() has not returned yet
Failing == ~p_is_valid /\ pc \in {"trailing", "return"}

\* C38: once the parser has logged its first error no frame changes any
\* more, the first diagnostic stays the first line, and parse() returns
\* Null with one or more diagnostics, none of them empty; the diagnostic
\* of an invalid token is logged as the lexer made it
C38_FirstErrorHalts ==
    /\ [][Failing => /\ stack' = stack /\ key_stack' = key_stack
                     /\ p_error_message'[1] = p_error_message[1]
                     /\ ~p_is_valid'
                     /\ pc' \in {"return", "idle"}]_vars
    /\ [][p_is_valid /\ ~p_is_valid' /\ pc \in {"parse", "complex"}
             /\ last_token'.type = "invalid"
          => p_error_message' = <<last_token'.error_str>>]_vars
    /\ [](pc = "return" /\ ~p_is_valid =>
             /\ p_root = Null
             /\ Len(p_error_message) >= 1
             /\ \A i \in DOMAIN p_error_message : p_error_message[i].text /= "")

\* The text of a tree with every element and member written once: the
\* elements by index, the members in the order of the keys, one to a line,
\* four blanks deeper than the bracket that holds them.
RECURSIVE WrittenOnce(_, _, _)
WrittenOnce(x, level, order) ==
    IF ~IsComplex(x) THEN format_simple_node_(x)
    ELSE
    LET isArr == Is(x, "array")
        n == IF isArr THEN Len(x.v) ELSE Cardinality(DOMAIN x.v)
        key(i) == order[DOMAIN x.v][i]
        line(i) ==
            Repeat(32, (level + 1) * 4)
            \o (IF isArr THEN <<>> ELSE format_string_(key(i)) \o <<58, 32>>)
            \o WrittenOnce(IF isArr THEN x.v[i] ELSE x.v[key(i)], level + 1, order)
            \o (IF i < n THEN <<44, 10>> ELSE <<10>>)
    IN  IF n = 0 THEN (IF isArr THEN <<91, 93>> ELSE <<123, 125>>)
        ELSE (IF isArr THEN <<91, 10>> ELSE <<123, 10>>)
             \o Concat([i \in 1..n |-> line(i)])
             \o Repeat(32, level * 4)
             \o (IF isArr THEN <<93>> ELSE <<125>>)

IsPrefix(a, b) == Len(a) <= Len(b) /\ SubSeq(b, 1, Len(a)) = a

\* the frames whose opening bracket is written: those that have gone on to
\* a child
Opened == {i \in DOMAIN fmt.stack : fmt.stack[i].index > 0}

\* each frame above the first is on the child its parent went on to last
FramesAreAPath ==
    /\ fmt.stack /= <<>> => fmt.stack[1].ptr = root
    /\ \A i \in 1..(Len(fmt.stack) - 1) :
          LET parent == fmt.stack[i] IN
          /\ parent.index >= 1 /\ parent.index <= parent.size
          /\ fmt.stack[i + 1].ptr = ChildAt([parent EXCEPT !.index = @ - 1])

\* C39: at every loop head of format_complex_node_ the indentation level
\* is the number of frames whose opening bracket is written, the frames
\* are a path from the root into the tree, and the text so far is the
\* start of the text that holds every element and member once, in index
\* order and in the one key order of each object; every iteration writes
\* something and leaves the tree alone; the loop ends with no frame, level
\* 0 and that whole text
C39_TraversalWellFormed ==
    /\ [](pc = "format" =>
             /\ root = given
             /\ fmt.indent_level = Cardinality(Opened)
             /\ FramesAreAPath
             /\ IsPrefix(fmt.oss, WrittenOnce(root, 0, fmt.order))
             /\ fmt.stack = <<>> =>
                   fmt.indent_level = 0 /\ fmt.oss = WrittenOnce(root, 0, fmt.order))
    /\ [][pc = "format" /\ pc' = "format" =>
             /\ Len(fmt'.oss) > Len(fmt.oss)
             /\ fmt'.order = fmt.order
             /\ root' = root]_vars
    /\ [][pc = "format" /\ pc' = "idle" => out' = WrittenOnce(root, 0, fmt.order)]_vars

\* [[], 1] has been rendered
C39_Witness ==
    /\ pc = "idle" /\ calls = 1
    /\ root = JArray(<<JArray(<<>>), One>>)
    /\ fmt.stack = <<>> /\ fmt.indent_level = 0
    /\ out = <<91, 10>> \o Repeat(32, 4) \o <<91, 93, 44, 10>> \o Repeat(32, 4) \o <<49, 10, 93>>

====
